---- MODULE Spec2Model ----
(***************************************************************************)
(* Model of the ingestion pipeline of ingestor_scrapper: content-type      *)
(* detection (adapters/fetchers/scrapy.py), parser routing                 *)
(* (application/parser_router.py, adapters/parsers/registry.py), the stub  *)
(* format parsers, the generic normalizer and the two orchestrators        *)
(* (application/bcra_use_case.py, application/universal_ingest_use_case.py)*)
(*                                                                         *)
(* Python strings and byte strings are sequences of one-character strings, *)
(* so that "in", endswith, lower, strip and split are computed on the      *)
(* characters.  Objects (parsers, normalizers) are named by one-element    *)
(* sequences, so that a reference compares with None.                      *)
(***************************************************************************)
EXTENDS Integers, Sequences, FiniteSets, TLC

VARIABLES
    \* ---- one execute() call of an orchestrator ----
    uc,          \* which orchestrator runs: "bcra" | "universal"
    url,         \* the url argument of execute
    registry,    \* ParserRouter.parser_registry of the universal use case
    parser,      \* the parser in use (self.parser / the router's selection)
    normalizer,  \* self.normalizer: "mock" | "generic"
    pc,          \* position inside execute
    document,    \* local variable document
    records,     \* local variable records
    items,       \* local variable items
    calls,       \* collaborator calls made so far in this run, in order
    raised,      \* stages whose collaborator call raised in this run
    result,      \* value returned by execute (Pending while running)
    \* ---- content-type detection on a Scrapy response ----
    hdr,         \* raw Content-Type header bytes of the response (or None)
    rurl,        \* response.url
    rbody,       \* response.body
    detected,    \* value returned by _detect_content_type (or NotRun)
    \* ---- one call of a router, parser or normalizer method ----
    inp,         \* the receiver and arguments of the call
    out          \* its outcome (NotCalled before the call)

orchVars == <<uc, url, registry, parser, normalizer, pc, document, records,
              items, calls, raised, result>>
detVars == <<hdr, rurl, rbody, detected>>
callVars == <<inp, out>>
vars == <<uc, url, registry, parser, normalizer, pc, document, records,
          items, calls, raised, result, hdr, rurl, rbody, detected, inp, out>>

\* Python None, as a value that compares with every str, bytes and object name
None == <<"None">>
NotRun == "NotRun"

(***************************************************************************)
(* Bounds                                                                  *)
(***************************************************************************)
MaxHeaderPieces == 2
MaxUrlPieces == 2
MaxRecords == 2

(***************************************************************************)
(* Python string primitives                                                *)
(***************************************************************************)
\* needle in hay
Contains(needle, hay) ==
    \E i \in 1..(Len(hay) + 1) :
        /\ i + Len(needle) - 1 <= Len(hay)
        /\ SubSeq(hay, i, i + Len(needle) - 1) = needle

\* hay.endswith(suffix)
EndsWith(hay, suffix) ==
    /\ Len(suffix) <= Len(hay)
    /\ SubSeq(hay, Len(hay) - Len(suffix) + 1, Len(hay)) = suffix

\* str.lower()
Lower(s) ==
    LET UpperToLower ==
            [c \in {"C", "S", "V", "X", "L", "H", "T", "M"} |->
                CASE c = "C" -> "c" [] c = "S" -> "s" [] c = "V" -> "v"
                  [] c = "X" -> "x" [] c = "L" -> "l" [] c = "H" -> "h"
                  [] c = "T" -> "t" [] c = "M" -> "m"]
    IN [i \in 1..Len(s) |->
          IF s[i] \in DOMAIN UpperToLower THEN UpperToLower[s[i]] ELSE s[i]]

\* a byte that is not valid UTF-8
BadByte == "\\xff"

\* bytes.decode("utf-8", errors="ignore")
Decode(b) == SelectSeq(b, LAMBDA c : c # BadByte)

Whitespace == {" ", "\n", "\t"}

\* str.strip()
Strip(s) ==
    LET RECURSIVE LStrip(_)
        LStrip(t) ==
            IF t # <<>> /\ Head(t) \in Whitespace THEN LStrip(Tail(t)) ELSE t
        RECURSIVE RStrip(_)
        RStrip(t) ==
            IF t # <<>> /\ t[Len(t)] \in Whitespace
            THEN RStrip(SubSeq(t, 1, Len(t) - 1)) ELSE t
    IN RStrip(LStrip(s))

\* truthiness of an optional str / bytes: None and empty are falsy
Truthy(v) == v # None /\ v # <<>>

\* truthiness of a list: empty is falsy
TruthyList(l) == Len(l) > 0

(***************************************************************************)
(* core/entities.py                                                        *)
(***************************************************************************)
ContentType == {"HTML", "CSV", "XLS", "XLSX", "PDF", "UNKNOWN"}

(***************************************************************************)
(* AdapterScrapyDocumentFetcher._detect_content_type                       *)
(***************************************************************************)
\* self.response.headers.get("Content-Type", b"")
HeaderGet(h) == IF h = None THEN <<>> ELSE h

\* the same without .lower()
content_type_header_NoLower(h) == Decode(HeaderGet(h))

\* content_type_header = headers.get(...).decode("utf-8", errors="ignore").lower()
content_type_header(h) == Lower(Decode(HeaderGet(h)))

NoMatch == "NoMatch"

\* the branches on the header; NoMatch when none of them is taken
HeaderBranches(cth) ==
    IF Contains(<<"h","t","m","l">>, cth) THEN "HTML"
    ELSE IF Contains(<<"c","s","v">>, cth) THEN "CSV"
    ELSE IF \/ Contains(<<"e","x","c","e","l">>, cth)
            \/ Contains(<<"s","p","r","e","a","d","s","h","e","e","t">>, cth)
         THEN "XLSX"
    ELSE IF \/ Contains(<<"x","l","s">>, cth)
            \/ EndsWith(cth, <<".","x","l","s">>)
         THEN "XLS"
    ELSE IF \/ Contains(<<"x","l","s","x">>, cth)
            \/ EndsWith(cth, <<".","x","l","s","x">>)
         THEN "XLSX"
    ELSE IF Contains(<<"p","d","f">>, cth) THEN "PDF"
    ELSE NoMatch

\* the branches on self.response.url, ending in the HTML default
UrlBranches(u) ==
    IF EndsWith(u, <<".","c","s","v">>) THEN "CSV"
    ELSE IF EndsWith(u, <<".","x","l","s">>) THEN "XLS"
    ELSE IF EndsWith(u, <<".","x","l","s","x">>) THEN "XLSX"
    ELSE IF EndsWith(u, <<".","p","d","f">>) THEN "PDF"
    ELSE "HTML"

\* the same with the url suffix tested before the header
_detect_content_type_UrlFirst(h, u) ==
    IF UrlBranches(u) # "HTML" THEN UrlBranches(u)
    ELSE IF HeaderBranches(content_type_header(h)) # NoMatch
    THEN HeaderBranches(content_type_header(h))
    ELSE "HTML"

\* the same with headers.get("Content-Type") without the b"" default:
\* None.decode raises AttributeError when the header is absent
_detect_content_type_NoDefault(h, u) ==
    IF h = None THEN "AttributeError"
    ELSE IF HeaderBranches(content_type_header(h)) # NoMatch
    THEN HeaderBranches(content_type_header(h))
    ELSE UrlBranches(u)

_detect_content_type(h, u) ==
    IF HeaderBranches(content_type_header(h)) # NoMatch
    THEN HeaderBranches(content_type_header(h))
    ELSE UrlBranches(u)

(***************************************************************************)
(* Responses the detector is applied to                                    *)
(***************************************************************************)
RECURSIVE Concats(_, _)
\* all concatenations of at most n pieces
Concats(pieces, n) ==
    IF n = 0 THEN { <<>> }
    ELSE LET shorter == Concats(pieces, n - 1) IN
         shorter \cup { s \o p : s \in shorter, p \in pieces }

\* Content-Type values: concatenations of tokens, or no header
Headers ==
    Concats({ <<"h","t","m","l">>, <<"c","s","v">>, <<"C","s","V">>,
              <<"e","x","c","e","l">>,
              <<"s","p","r","e","a","d","s","h","e","e","t">>,
              <<"x","l","s">>, <<"x","l","s","x">>,
              <<"p","d","f">>, <<"x">>, <<"l","s">>, <<BadByte>> },
            MaxHeaderPieces) \cup {None}

\* response urls: concatenations of a name, suffixes and a query string
Urls ==
    Concats({ <<"a">>, <<".","c","s","v">>, <<".","x","l","s">>,
              <<".","x","l","s","x">>, <<".","p","d","f">>, <<"?","q">> },
            MaxUrlPieces)

\* URLs of a second response that carries the same header
OtherUrls ==
    { <<"a">> \o p :
        p \in { <<>>, <<".","c","s","v">>, <<".","x","l","s">>,
                <<".","x","l","s","x">>, <<".","p","d","f">> } }

(***************************************************************************)
(* Entities handled by one pipeline run                                    *)
(***************************************************************************)
\* url arguments of execute: empty, whitespace-only, plain, padded
ExecUrls == { <<>>, <<" ">>, <<" ", "\t">>, <<"a">>, <<" ", "a">> }

\* Document(url, content_type, bytes, text, status_code)
Documents(u) ==
    [url : {u}, content_type : ContentType, bytes : { None, <<>>, <<"b">> },
     text : { None, <<>>, <<" ">>, <<"a">>, <<"a", "\n", "b">> },
     status_code : {200}]

\* Record(data, source_url, fetched_at); datetime.now() is the value "now"
MkRecord(d, u) == [data |-> d, source_url |-> u, fetched_at |-> "now"]

RecordPool(u) ==
    { MkRecord("detalle" :> <<"T">>, u),
      MkRecord("raw_line" :> <<"a">>, u) }

\* Item(title, content, url)
MkItem(t, c, u) == [title |-> t, content |-> c, url |-> u]

ItemPool(u) == { MkItem(<<"T">>, <<"c">>, u), MkItem(<<>>, <<"d">>, None) }

\* all lists of at most n elements of pool
ListsUpTo(pool, n) == UNION { [1..k -> pool] : k \in 0..n }

(***************************************************************************)
(* Format parsers registered in PARSER_REGISTRY                            *)
(***************************************************************************)
\* AdapterBs4Parser.parse: stub
AdapterBs4Parser_parse(doc) == <<>>

\* AdapterExcelParser.parse: stub behind two guards
AdapterExcelParser_parse(doc) ==
    IF doc.content_type \notin {"XLS", "XLSX"} THEN <<>>
    ELSE IF ~Truthy(doc.bytes) THEN <<>>
    ELSE <<>>

\* AdapterPdfParser.parse: stub behind one guard
AdapterPdfParser_parse(doc) ==
    IF ~Truthy(doc.bytes) THEN <<>> ELSE <<>>

RECURSIVE Split(_, _)
\* str.split(sep) for a one-character separator
Split(s, sep) ==
    IF \A i \in 1..Len(s) : s[i] # sep THEN << s >>
    ELSE LET k == CHOOSE i \in 1..Len(s) :
                      s[i] = sep /\ \A j \in 1..(i - 1) : s[j] # sep
         IN << SubSeq(s, 1, k - 1) >> \o Split(SubSeq(s, k + 1, Len(s)), sep)

\* lst[:n]
Take(lst, n) == SubSeq(lst, 1, IF Len(lst) < n THEN Len(lst) ELSE n)

CsvLineLimit == 5

RECURSIVE CsvRecords(_, _)
\* the for loop over lines
CsvRecords(lines, u) ==
    IF lines = <<>> THEN <<>>
    ELSE (IF Strip(Head(lines)) # <<>>
          THEN << MkRecord("raw_line" :> Head(lines), u) >>
          ELSE <<>>) \o CsvRecords(Tail(lines), u)

\* AdapterCsvParser.parse
AdapterCsvParser_parse(doc) ==
    IF ~Truthy(doc.text) THEN <<>>
    ELSE CsvRecords(Take(Split(Strip(doc.text), "\n"), CsvLineLimit),
                    doc.url)

_BS4_PARSER == <<"bs4">>
_CSV_PARSER == <<"csv">>
_EXCEL_PARSER == <<"excel">>
_PDF_PARSER == <<"pdf">>
\* a parser test double: returns any record list, or raises
MockParser == <<"mock">>

\* registry.py: XLS and XLSX share _EXCEL_PARSER, UNKNOWN is absent
PARSER_REGISTRY ==
    [ct \in {"HTML", "CSV", "XLS", "XLSX", "PDF"} |->
        CASE ct = "HTML" -> _BS4_PARSER
          [] ct = "CSV" -> _CSV_PARSER
          [] ct \in {"XLS", "XLSX"} -> _EXCEL_PARSER
          [] ct = "PDF" -> _PDF_PARSER]

\* the default registry and two registries of test doubles: one that covers
\* every type, one that is sparse
Registries ==
    { PARSER_REGISTRY,
      [ct \in ContentType |-> MockParser], [ct \in {"HTML"} |-> MockParser] }

\* the same with parser_registry[content_type]: KeyError on a miss
ParserRouter_select_Indexing(reg, ct) ==
    IF ct \in DOMAIN reg THEN reg[ct] ELSE <<"KeyError">>

\* ParserRouter.select: parser_registry.get(content_type)
ParserRouter_select(reg, ct) == IF ct \in DOMAIN reg THEN reg[ct] ELSE None

(***************************************************************************)
(* AdapterGenericNormalizer                                                *)
(***************************************************************************)
GenericNormalizer == <<"generic">>
\* a normalizer test double: returns any item list, or raises
MockNormalizer == <<"mock">>

\* dict.get(key) with default None
DictGet(d, k) == IF k \in DOMAIN d THEN d[k] ELSE None

\* a or b
Or(a, b) == IF Truthy(a) THEN a ELSE b

\* the keys a Record.data may hold, in the order the parsers insert them
DataKeys == <<"detalle", "fecha", "valor", "title", "name", "raw_line">>

\* a value json cannot serialize and that has no strip method
Object == <<"<object>">>

\* json's text of one value: null for None, the quoted text of a str
JsonValue(v) == IF v = None THEN <<"null">> ELSE <<"\"">> \o v \o <<"\"">>

RECURSIVE JsonMembers(_, _, _)
JsonMembers(d, keys, first) ==
    IF keys = <<>> THEN <<>>
    ELSE IF Head(keys) \notin DOMAIN d THEN JsonMembers(d, Tail(keys), first)
    ELSE (IF first THEN <<>> ELSE <<",", " ">>)
         \o <<"\"", Head(keys), "\"", ":", " ">> \o JsonValue(d[Head(keys)])
         \o JsonMembers(d, Tail(keys), FALSE)

\* json.dumps(data, ensure_ascii=False): the text {"key": value, ...}
JsonDumps(d) == <<"{">> \o JsonMembers(d, DataKeys, TRUE) \o <<"}">>

\* json.dumps raises TypeError on d
JsonRaises(d) == \E k \in DOMAIN d : d[k] = Object

\* the same probing name before title
GenericNormalizeRecord_NameFirst(record) ==
    IF JsonRaises(record.data) THEN <<>>
    ELSE LET content == JsonDumps(record.data)
             title == Or(DictGet(record.data, "name"),
                         Or(DictGet(record.data, "title"),
                            Or(DictGet(record.data, "detalle"), <<>>)))
         IN << MkItem(title, content, record.source_url) >>

\* the body of the for loop of AdapterGenericNormalizer.normalize: a list
\* with the Item, or the empty list when the try block raised
GenericNormalizeRecord(record) ==
    IF JsonRaises(record.data) THEN <<>>
    ELSE LET content == JsonDumps(record.data)
             title == Or(DictGet(record.data, "title"),
                         Or(DictGet(record.data, "name"),
                            Or(DictGet(record.data, "detalle"), <<>>)))
         IN << MkItem(title, content, record.source_url) >>

RECURSIVE AdapterGenericNormalizer_normalize(_)
AdapterGenericNormalizer_normalize(recs) ==
    IF recs = <<>> THEN <<>>
    ELSE GenericNormalizeRecord(Head(recs))
         \o AdapterGenericNormalizer_normalize(Tail(recs))

(***************************************************************************)
(* Outcomes of a call                                                      *)
(***************************************************************************)
Returns(v) == [raises |-> FALSE, value |-> v]
Raises == [raises |-> TRUE, value |-> <<>>]

\* outcome of a call that returned v
Done(v) == [done |-> TRUE, raises |-> FALSE, value |-> v]

\* outcome of a call that raised
Failed == [done |-> TRUE, raises |-> TRUE, value |-> <<>>]

(***************************************************************************)
(* AdapterBcraParser                                                       *)
(***************************************************************************)
EXPECTED_CELLS_PER_ROW == 3
CELL_INDEX_DETALLE == 0
CELL_INDEX_FECHA == 1
CELL_INDEX_VALOR == 2

MaxRows == 2
MaxCsvPieces == 4

BcraParser == <<"bcra">>

\* a td element: the text of its first a element (None without a link) and
\* its own text, one text node each
Cell(link, text) == [link |-> link, text |-> text]

\* cells[i] with Python's zero-based index
At(cells, i) == cells[i + 1]

\* Tag.get_text(strip=True) of a single text node
get_text(t) == Strip(t)

\* _is_valid_row
_is_valid_row(cells) == Len(cells) >= EXPECTED_CELLS_PER_ROW

\* the same reading the text of the cell instead of the text of its link
_extract_detalle_CellText(cell) == get_text(cell.text)

\* _extract_detalle: cell.find("a"), then the link's text
_extract_detalle(cell) ==
    IF cell.link = None THEN <<>> ELSE get_text(cell.link)

\* _extract_fecha
_extract_fecha(cell) == get_text(cell.text)

\* _extract_valor
_extract_valor(cell) == get_text(cell.text)

\* _is_valid_data: bool(detalle and fecha and valor)
_is_valid_data(detalle, fecha, valor) ==
    detalle # <<>> /\ fecha # <<>> /\ valor # <<>>

\* _extract_record_from_row: a list holding the Record, or the empty list
\* for the None result; row is the list row.find_all("td")
_extract_record_from_row(row, u) ==
    LET cells == row IN
    IF ~_is_valid_row(cells) THEN <<>>
    ELSE LET detalle == _extract_detalle(At(cells, CELL_INDEX_DETALLE))
             fecha == _extract_fecha(At(cells, CELL_INDEX_FECHA))
             valor == _extract_valor(At(cells, CELL_INDEX_VALOR))
         IN IF ~_is_valid_data(detalle, fecha, valor) THEN <<>>
            ELSE << MkRecord([detalle |-> detalle, fecha |-> fecha,
                              valor |-> valor], u) >>

RECURSIVE BcraRecords(_, _)
\* the for loop over rows
BcraRecords(rows, u) ==
    IF rows = <<>> THEN <<>>
    ELSE _extract_record_from_row(Head(rows), u)
         \o BcraRecords(Tail(rows), u)

\* the same without the try block around the body
AdapterBcraParser_parse_NoTry(doc, soup) ==
    IF ~Truthy(doc.text) \/ Strip(doc.text) = <<>> THEN Done(<<>>)
    ELSE IF soup.raises THEN Failed
    ELSE Done(BcraRecords(soup.rows, doc.url))

\* AdapterBcraParser.parse; soup is what BeautifulSoup(document.text, parser)
\* does: it raises, or it gives a tree whose tr elements are soup.rows
AdapterBcraParser_parse(doc, soup) ==
    IF ~Truthy(doc.text) \/ Strip(doc.text) = <<>> THEN Done(<<>>)
    ELSE IF soup.raises THEN Done(<<>>)
    ELSE Done(BcraRecords(soup.rows, doc.url))

(***************************************************************************)
(* AdapterBcraNormalizer                                                   *)
(***************************************************************************)
BcraNormalizer == <<"bcra">>

Digits == <<"0", "1", "2", "3", "4", "5", "6", "7", "8", "9">>

IsDigit(c) == \E n \in 1..10 : Digits[n] = c

DigitVal(c) == (CHOOSE n \in 1..10 : Digits[n] = c) - 1

AllDigits(s) == \A i \in 1..Len(s) : IsDigit(s[i])

RECURSIVE ToInt(_)
\* int(s) of a text of decimal digits
ToInt(s) ==
    IF s = <<>> THEN 0
    ELSE 10 * ToInt(SubSeq(s, 1, Len(s) - 1)) + DigitVal(s[Len(s)])

RECURSIVE ToStr(_)
\* str(n) of a natural number
ToStr(n) ==
    IF n < 10 THEN << Digits[n + 1] >>
    ELSE ToStr(n \div 10) \o << Digits[(n % 10) + 1] >>

RECURSIVE ZeroPad(_, _)
\* s left-padded with zeros to width w
ZeroPad(s, w) == IF Len(s) >= w THEN s ELSE ZeroPad(<<"0">> \o s, w)

\* datetime.strptime(s, "%d/%m/%Y") returns a date: the three tokens match
\* and datetime accepts the year (MINYEAR is 1) and the day of the month
\* (%d: 1..31 and %m: 1..12 in one or two digits, %Y: four digits)
StrptimeOk(s) ==
    LET parts == Split(s, "/")
        DayToken(t) == Len(t) \in {1, 2} /\ AllDigits(t) /\ ToInt(t) \in 1..31
        MonthToken(t) == Len(t) \in {1, 2} /\ AllDigits(t) /\ ToInt(t) \in 1..12
        YearToken(t) == Len(t) = 4 /\ AllDigits(t)
        IsLeap(y) == (y % 4 = 0 /\ y % 100 # 0) \/ y % 400 = 0
        DaysInMonth(y, m) ==
            IF m = 2 THEN (IF IsLeap(y) THEN 29 ELSE 28)
            ELSE IF m \in {4, 6, 9, 11} THEN 30 ELSE 31
    IN /\ Len(parts) = 3
       /\ DayToken(parts[1])
       /\ MonthToken(parts[2])
       /\ YearToken(parts[3])
       /\ ToInt(parts[3]) >= 1
       /\ ToInt(parts[1]) <= DaysInMonth(ToInt(parts[3]), ToInt(parts[2]))

\* strftime("%Y-%m-%d"): %m and %d have two digits; %Y is handed to the C
\* library, which pads the year to four digits or leaves it unpadded
Strftime(y, m, d, pads_year) ==
    (IF pads_year THEN ZeroPad(ToStr(y), 4) ELSE ToStr(y))
    \o <<"-">> \o ZeroPad(ToStr(m), 2) \o <<"-">> \o ZeroPad(ToStr(d), 2)

\* the same handing back the stripped text when strptime fails
_parse_fecha_ReturnsStripped(fecha_str, pads_year) ==
    IF fecha_str = Object THEN Raises
    ELSE IF ~Truthy(fecha_str) \/ Strip(fecha_str) = <<>> THEN Returns(<<>>)
    ELSE IF StrptimeOk(Strip(fecha_str))
         THEN LET parts == Split(Strip(fecha_str), "/")
              IN Returns(Strftime(ToInt(parts[3]), ToInt(parts[2]),
                                  ToInt(parts[1]), pads_year))
         ELSE Returns(Strip(fecha_str))

\* AdapterBcraNormalizer._parse_fecha: what the call returns, or that it
\* raises; the test of line 96 is outside the try block, so a truthy value
\* without strip raises AttributeError
_parse_fecha(fecha_str, pads_year) ==
    IF fecha_str = Object THEN Raises
    ELSE IF ~Truthy(fecha_str) \/ Strip(fecha_str) = <<>> THEN Returns(<<>>)
    ELSE IF StrptimeOk(Strip(fecha_str))
         THEN LET parts == Split(Strip(fecha_str), "/")
              IN Returns(Strftime(ToInt(parts[3]), ToInt(parts[2]),
                                  ToInt(parts[1]), pads_year))
         ELSE Returns(fecha_str)

\* str.replace(old, new) for a one-character old
Replace(s, old, new) ==
    LET RECURSIVE R(_)
        R(t) == IF t = <<>> THEN <<>>
                ELSE (IF Head(t) = old THEN new ELSE << Head(t) >>)
                     \o R(Tail(t))
    IN R(s)

RECURSIVE Float(_, _, _)
\* the float (-1)^neg * n / 10^e, written so that equal numbers are equal
\* values: n carries no trailing zero
Float(neg, n, e) ==
    IF n = 0 THEN [neg |-> FALSE, n |-> 0, e |-> 0]
    ELSE IF n % 10 = 0 THEN Float(neg, n \div 10, e - 1)
    ELSE [neg |-> neg, n |-> n, e |-> e]

Zero == Float(FALSE, 0, 0)

\* how float(s) reads s: an optional sign, then inf, infinity or nan, or
\* digits with at most one point, an optional exponent, and single
\* underscores between digits (lower-case ASCII texts; "E" is read as "e")
FloatParts(s) ==
    LET t == Strip(s)
        signed == t # <<>> /\ Head(t) \in {"+", "-"}
        body == IF signed THEN Tail(t) ELSE t
        First(set, default) ==
            IF set = {} THEN default
            ELSE CHOOSE i \in set : \A j \in set : i <= j
        k == First({ i \in 1..Len(body) : body[i] \in {"e", "E"} },
                   Len(body) + 1)
        mant == SubSeq(body, 1, k - 1)
        expo == SubSeq(body, k + 1, Len(body))
        esigned == expo # <<>> /\ Head(expo) \in {"+", "-"}
        edigits == IF esigned THEN Tail(expo) ELSE expo
        p == First({ i \in 1..Len(mant) : mant[i] = "." }, Len(mant) + 1)
        ip == SubSeq(mant, 1, p - 1)
        fp == SubSeq(mant, p + 1, Len(mant))
        DigitPart(d) ==
            /\ d # <<>>
            /\ \A i \in 1..Len(d) : IsDigit(d[i]) \/ d[i] = "_"
            /\ IsDigit(d[1])
            /\ IsDigit(d[Len(d)])
            /\ \A i \in 1..(Len(d) - 1) : ~(d[i] = "_" /\ d[i + 1] = "_")
        isinf == Lower(body) \in { <<"i", "n", "f">>,
                            <<"i", "n", "f", "i", "n", "i", "t", "y">> }
        isnan == Lower(body) = <<"n", "a", "n">>
        numeric == /\ ip = <<>> \/ DigitPart(ip)
                   /\ fp = <<>> \/ DigitPart(fp)
                   /\ ip # <<>> \/ fp # <<>>
                   /\ k > Len(body) \/ DigitPart(edigits)
    IN [ok |-> isinf \/ isnan \/ numeric,
        neg |-> signed /\ Head(t) = "-",
        isinf |-> isinf,
        isnan |-> isnan,
        digits |-> SelectSeq(ip, IsDigit) \o SelectSeq(fp, IsDigit),
        decimals |-> Len(SelectSeq(fp, IsDigit)),
        eneg |-> esigned /\ Head(expo) = "-",
        exponent |-> ToInt(SelectSeq(edigits, IsDigit))]

\* float(s) accepts s
FloatOk(s) == FloatParts(s).ok

\* float(s) for an accepted s; a number beyond the range of a double is
\* infinite, one below it is zero (exact for numbers far from both limits)
ToFloat(s) ==
    LET Value(f) ==
            LET n == ToInt(f.digits)
                e == IF f.eneg THEN f.decimals + f.exponent
                     ELSE f.decimals - f.exponent
            IN IF f.isnan THEN [nan |-> TRUE]
               ELSE IF f.isinf \/ (n # 0 /\ Len(ToStr(n)) - e > 309)
                    THEN [neg |-> f.neg, inf |-> TRUE]
               ELSE IF Len(ToStr(n)) - e < 0 - 323 THEN Zero
               ELSE Float(f.neg, n, e)
    IN Value(FloatParts(s))

\* the same keeping the dots of a text without comma
_parse_valor_KeepsDots(valor_str) ==
    IF valor_str = Object THEN Raises
    ELSE IF ~Truthy(valor_str) \/ Strip(valor_str) = <<>> THEN Returns(Zero)
    ELSE LET Cleaned(spaceless) ==
                 IF \E i \in 1..Len(spaceless) : spaceless[i] = ","
                 THEN Replace(Replace(spaceless, ".", <<>>), ",", <<".">>)
                 ELSE spaceless
             Convert(cleaned) ==
                 IF FloatOk(cleaned) THEN Returns(ToFloat(cleaned))
                 ELSE Returns(Zero)
         IN Convert(Cleaned(Replace(Strip(valor_str), " ", <<>>)))

\* the same without the try block around float
_parse_valor_NoTry(valor_str) ==
    IF valor_str = Object THEN Raises
    ELSE IF ~Truthy(valor_str) \/ Strip(valor_str) = <<>> THEN Returns(Zero)
    ELSE LET Cleaned(spaceless) ==
                 IF \E i \in 1..Len(spaceless) : spaceless[i] = ","
                 THEN Replace(Replace(spaceless, ".", <<>>), ",", <<".">>)
                 ELSE Replace(spaceless, ".", <<>>)
             Convert(cleaned) ==
                 IF FloatOk(cleaned) THEN Returns(ToFloat(cleaned))
                 ELSE Raises
         IN Convert(Cleaned(Replace(Strip(valor_str), " ", <<>>)))

\* AdapterBcraNormalizer._parse_valor: what the call returns, or that it
\* raises; the test of line 124 is outside the try block
_parse_valor(valor_str) ==
    IF valor_str = Object THEN Raises
    ELSE IF ~Truthy(valor_str) \/ Strip(valor_str) = <<>> THEN Returns(Zero)
    ELSE LET Cleaned(spaceless) ==
                 IF \E i \in 1..Len(spaceless) : spaceless[i] = ","
                 THEN Replace(Replace(spaceless, ".", <<>>), ",", <<".">>)
                 ELSE Replace(spaceless, ".", <<>>)
             Convert(cleaned) ==
                 IF FloatOk(cleaned) THEN Returns(ToFloat(cleaned))
                 ELSE Returns(Zero)
         IN Convert(Cleaned(Replace(Strip(valor_str), " ", <<>>)))

\* dict.get(key, default)
DictGetOr(d, k, default) == IF k \in DOMAIN d THEN d[k] ELSE default

\* the same with the two parse calls outside the try block
BcraNormalizeRecord_NoTry(record, pads_year) ==
    LET title == DictGetOr(record.data, "detalle",
                           DictGetOr(record.data, "title", <<>>))
        fecha_str == DictGetOr(record.data, "fecha", <<>>)
        valor_str == DictGetOr(record.data, "valor", <<>>)
        Build(fecha_iso, valor_num) ==
            IF fecha_iso.raises \/ valor_num.raises THEN Raises
            ELSE Returns(<< MkItem(title, [fecha |-> fecha_iso.value,
                                           valor |-> valor_num.value],
                                   record.source_url) >>)
    IN Build(_parse_fecha(fecha_str, pads_year), _parse_valor(valor_str))

\* the body of the for loop of AdapterBcraNormalizer.normalize: it returns
\* a list with the Item, or the empty list when the try block raised
BcraNormalizeRecord(record, pads_year) ==
    LET title == DictGetOr(record.data, "detalle",
                           DictGetOr(record.data, "title", <<>>))
        fecha_str == DictGetOr(record.data, "fecha", <<>>)
        valor_str == DictGetOr(record.data, "valor", <<>>)
        Build(fecha_iso, valor_num) ==
            IF fecha_iso.raises \/ valor_num.raises THEN Returns(<<>>)
            ELSE Returns(<< MkItem(title, [fecha |-> fecha_iso.value,
                                           valor |-> valor_num.value],
                                   record.source_url) >>)
    IN Build(_parse_fecha(fecha_str, pads_year), _parse_valor(valor_str))

RECURSIVE AdapterBcraNormalizer_normalize(_, _)
\* AdapterBcraNormalizer.normalize: the outcome of the call
AdapterBcraNormalizer_normalize(recs, pads_year) ==
    IF recs = <<>> THEN Done(<<>>)
    ELSE LET Join(first, rest) ==
                 IF first.raises \/ rest.raises THEN Failed
                 ELSE Done(first.value \o rest.value)
         IN Join(BcraNormalizeRecord(Head(recs), pads_year),
                 AdapterBcraNormalizer_normalize(Tail(recs), pads_year))

(***************************************************************************)
(* What each collaborator call may do                                      *)
(***************************************************************************)

\* markup of the rates table: "<tr Tasa>" and "<tr Otra>" stand for the two
\* tr elements, each with a link in its first td and text in the next two
TrElements ==
    ("<tr Tasa>" :>
        << Cell(<<"T", "a", "s", "a">>, <<"T", "a", "s", "a">>),
           Cell(None, <<"2", "9", "/", "1", "0", "/", "2", "0", "2", "5">>),
           Cell(None, <<"1", ".", "4", "9", "6", ",", "0", "2">>) >>)
    @@ ("<tr Otra>" :>
        << Cell(<<"O", "t", "r", "a">>, <<"O", "t", "r", "a">>),
           Cell(None, <<"0", "1", "/", "0", "1", "/", "2", "0", "2", "4">>),
           Cell(None, <<"4", "0", ".", "7", "6", "4">>) >>)

\* BeautifulSoup(text, "html.parser") followed by find_all("tr"): the tr
\* elements of the markup, in document order
BeautifulSoup(text) ==
    LET trs == SelectSeq(text, LAMBDA c : c \in DOMAIN TrElements)
    IN [raises |-> FALSE,
        rows |-> [i \in 1..Len(trs) |-> TrElements[trs[i]]]]

\* the page with the two rows of the rates table
TableDocument(u) ==
    [url |-> u, content_type |-> "HTML", bytes |-> None,
     text |-> <<"<tr Tasa>", "\n", "<tr Otra>">>, status_code |-> 200]

\* DocumentFetcher.fetch: any Document, or an exception
FetchOutcomes(u) ==
    {Raises} \cup { Returns(d) : d \in Documents(u) \cup {TableDocument(u)} }

\* parse of parser p on doc
ParseOutcomes(p, doc) ==
    CASE p = _BS4_PARSER -> { Returns(AdapterBs4Parser_parse(doc)) }
      [] p = _CSV_PARSER -> { Returns(AdapterCsvParser_parse(doc)) }
      [] p = _EXCEL_PARSER -> { Returns(AdapterExcelParser_parse(doc)) }
      [] p = _PDF_PARSER -> { Returns(AdapterPdfParser_parse(doc)) }
      [] p = BcraParser ->
            { AdapterBcraParser_parse(doc, BeautifulSoup(doc.text)) }
      [] p = MockParser ->
            {Raises} \cup
            { Returns(r) : r \in ListsUpTo(RecordPool(doc.url), MaxRecords) }

\* normalize of normalizer n on recs; u is the url the test double labels
\* its items with
NormalizeOutcomes(n, recs, u) ==
    CASE n = GenericNormalizer ->
            { Returns(AdapterGenericNormalizer_normalize(recs)) }
      [] n = BcraNormalizer ->
            { AdapterBcraNormalizer_normalize(recs, pads_year) :
                 pads_year \in BOOLEAN }
      [] n = MockNormalizer ->
            {Raises} \cup
            { Returns(i) : i \in ListsUpTo(ItemPool(u), MaxRecords) }

\* OutputPort.emit: returns None, or an exception
EmitOutcomes == {Raises, Returns(None)}

Call(op, arg) == [op |-> op, arg |-> arg]

\* the operations called so far, in order
Ops == [i \in 1..Len(calls) |-> calls[i].op]

\* the arguments op was called with so far
ArgsOf(op) == { calls[i].arg : i \in { j \in 1..Len(calls) : calls[j].op = op } }

Called(op) == \E i \in 1..Len(calls) : calls[i].op = op

CountOf(op) == Cardinality({ i \in 1..Len(calls) : calls[i].op = op })

\* results of execute
Running == [kind |-> "running", value |-> <<>>]
Returned(v) == [kind |-> "returned", value |-> v]
Propagated == [kind |-> "raised", value |-> <<>>]

NoDocument ==
    [url |-> None, content_type |-> "NoDocument", bytes |-> None,
     text |-> None, status_code |-> 0]

\* return v
Return(v) == result' = Returned(v) /\ pc' = "done"

\* an exception leaves execute
Propagate == result' = Propagated /\ pc' = "done"

(***************************************************************************)
(* BcraUseCase.execute, statement by statement                             *)
(***************************************************************************)
\* a caller builds BcraUseCase(fetcher, parser, normalizer, output) and
\* calls execute(u)
BcraExecute(u, p, n) ==
    /\ pc \in {"idle", "done"}
    /\ uc' = "bcra"
    /\ url' = u
    /\ registry' = <<>>
    /\ parser' = p
    /\ normalizer' = n
    /\ document' = NoDocument
    /\ records' = <<>>
    /\ items' = <<>>
    /\ calls' = <<>>
    /\ raised' = {}
    /\ result' = Running
    /\ pc' = "b_url"
    /\ UNCHANGED <<detVars, callVars>>

\* Step 1: if not url or not url.strip(): return []
BcraValidateUrl ==
    /\ pc = "b_url"
    /\ IF ~Truthy(url) \/ ~Truthy(Strip(url))
       THEN Return(<<>>)
       ELSE pc' = "b_fetch" /\ UNCHANGED result
    /\ UNCHANGED <<uc, url, registry, parser, normalizer, document, records,
                   items, calls, raised, detVars, callVars>>

\* the same without the try/except around fetch
BcraFetch_NoTry ==
    /\ pc = "b_fetch"
    /\ calls' = Append(calls, Call("fetch", url))
    /\ \E o \in FetchOutcomes(url) :
         IF o.raises
         THEN /\ raised' = raised \cup {"fetch"}
              /\ Propagate
              /\ UNCHANGED document
         ELSE /\ document' = o.value
              /\ pc' = "b_content"
              /\ UNCHANGED <<raised, result>>
    /\ UNCHANGED <<uc, url, registry, parser, normalizer, records, items,
                   detVars, callVars>>

\* Step 1: try: document = self.fetcher.fetch(url) except Exception: return []
BcraFetch ==
    /\ pc = "b_fetch"
    /\ calls' = Append(calls, Call("fetch", url))
    /\ \E o \in FetchOutcomes(url) :
         IF o.raises
         THEN /\ raised' = raised \cup {"fetch"}
              /\ Return(<<>>)
              /\ UNCHANGED document
         ELSE /\ document' = o.value
              /\ pc' = "b_content"
              /\ UNCHANGED <<raised, result>>
    /\ UNCHANGED <<uc, url, registry, parser, normalizer, records, items,
                   detVars, callVars>>

\* Step 2: if not document.text or not document.text.strip(): return []
BcraValidateContent ==
    /\ pc = "b_content"
    /\ IF ~Truthy(document.text) \/ ~Truthy(Strip(document.text))
       THEN Return(<<>>)
       ELSE pc' = "b_parse" /\ UNCHANGED result
    /\ UNCHANGED <<uc, url, registry, parser, normalizer, document, records,
                   items, calls, raised, detVars, callVars>>

\* Step 3: try: records = self.parser.parse(document) except Exception: return []
BcraParse ==
    /\ pc = "b_parse"
    /\ calls' = Append(calls, Call("parse", document))
    /\ \E o \in ParseOutcomes(parser, document) :
         IF o.raises
         THEN /\ raised' = raised \cup {"parse"}
              /\ Return(<<>>)
              /\ UNCHANGED records
         ELSE /\ records' = o.value
              /\ pc' = "b_records"
              /\ UNCHANGED <<raised, result>>
    /\ UNCHANGED <<uc, url, registry, parser, normalizer, document, items,
                   detVars, callVars>>

\* Step 4: if not records: return []
BcraValidateRecords ==
    /\ pc = "b_records"
    /\ IF ~TruthyList(records)
       THEN Return(<<>>)
       ELSE pc' = "b_normalize" /\ UNCHANGED result
    /\ UNCHANGED <<uc, url, registry, parser, normalizer, document, records,
                   items, calls, raised, detVars, callVars>>

\* Step 5: try: items = self.normalizer.normalize(records)
\*         except Exception: return []
BcraNormalize ==
    /\ pc = "b_normalize"
    /\ calls' = Append(calls, Call("normalize", records))
    /\ \E o \in NormalizeOutcomes(normalizer, records, document.url) :
         IF o.raises
         THEN /\ raised' = raised \cup {"normalize"}
              /\ Return(<<>>)
              /\ UNCHANGED items
         ELSE /\ items' = o.value
              /\ pc' = "b_items"
              /\ UNCHANGED <<raised, result>>
    /\ UNCHANGED <<uc, url, registry, parser, normalizer, document, records,
                   detVars, callVars>>

\* the same without the empty-items gate
BcraValidateItems_NoGate ==
    /\ pc = "b_items"
    /\ pc' = "b_emit"
    /\ UNCHANGED <<uc, url, registry, parser, normalizer, document, records,
                   items, calls, raised, result, detVars, callVars>>

\* Step 6: if not items: return []
BcraValidateItems ==
    /\ pc = "b_items"
    /\ IF ~TruthyList(items)
       THEN Return(<<>>)
       ELSE pc' = "b_emit" /\ UNCHANGED result
    /\ UNCHANGED <<uc, url, registry, parser, normalizer, document, records,
                   items, calls, raised, detVars, callVars>>

\* the same with a second emit after a failed one
BcraEmit_Retry ==
    /\ pc = "b_emit"
    /\ \E o \in EmitOutcomes :
         IF o.raises
         THEN /\ raised' = raised \cup {"emit"}
              /\ calls' = calls \o <<Call("emit", items), Call("emit", items)>>
         ELSE /\ raised' = raised
              /\ calls' = Append(calls, Call("emit", items))
    /\ Return(items)
    /\ UNCHANGED <<uc, url, registry, parser, normalizer, document, records,
                   items, detVars, callVars>>

\* Step 7: try: self.output.emit(items) except Exception: log
\*         return items
BcraEmit ==
    /\ pc = "b_emit"
    /\ calls' = Append(calls, Call("emit", items))
    /\ \E o \in EmitOutcomes :
         raised' = IF o.raises THEN raised \cup {"emit"} ELSE raised
    /\ Return(items)
    /\ UNCHANGED <<uc, url, registry, parser, normalizer, document, records,
                   items, detVars, callVars>>

(***************************************************************************)
(* UniversalIngestUseCase.execute, statement by statement                  *)
(***************************************************************************)
\* a caller builds UniversalIngestUseCase(fetcher, ParserRouter(reg),
\* normalizer, output) and calls execute(u)
UniversalExecute(u, reg, n) ==
    /\ pc \in {"idle", "done"}
    /\ uc' = "universal"
    /\ url' = u
    /\ registry' = reg
    /\ parser' = None
    /\ normalizer' = n
    /\ document' = NoDocument
    /\ records' = <<>>
    /\ items' = <<>>
    /\ calls' = <<>>
    /\ raised' = {}
    /\ result' = Running
    /\ pc' = "u_fetch"
    /\ UNCHANGED <<detVars, callVars>>

\* the same going on to step 2 when fetch raised
UniversalFetch_ContinuesOnFailure ==
    /\ pc = "u_fetch"
    /\ calls' = Append(calls, Call("fetch", url))
    /\ \E o \in FetchOutcomes(url) :
         IF o.raises
         THEN /\ raised' = raised \cup {"fetch"}
              /\ pc' = "u_validate"
              /\ UNCHANGED <<document, result>>
         ELSE /\ document' = o.value
              /\ pc' = "u_validate"
              /\ UNCHANGED <<raised, result>>
    /\ UNCHANGED <<uc, url, registry, parser, normalizer, records, items,
                   detVars, callVars>>

\* Step 1: try: document = self.fetcher.fetch(url) except Exception: return []
UniversalFetch ==
    /\ pc = "u_fetch"
    /\ calls' = Append(calls, Call("fetch", url))
    /\ \E o \in FetchOutcomes(url) :
         IF o.raises
         THEN /\ raised' = raised \cup {"fetch"}
              /\ Return(<<>>)
              /\ UNCHANGED document
         ELSE /\ document' = o.value
              /\ pc' = "u_validate"
              /\ UNCHANGED <<raised, result>>
    /\ UNCHANGED <<uc, url, registry, parser, normalizer, records, items,
                   detVars, callVars>>

\* the same without the UNKNOWN gate
UniversalValidateDocument_NoGate ==
    /\ pc = "u_validate"
    /\ pc' = "u_route"
    /\ UNCHANGED <<uc, url, registry, parser, normalizer, document, records,
                   items, calls, raised, result, detVars, callVars>>

\* Step 2: if document.content_type == ContentType.UNKNOWN: return []
UniversalValidateDocument ==
    /\ pc = "u_validate"
    /\ IF document.content_type = "UNKNOWN"
       THEN Return(<<>>)
       ELSE pc' = "u_route" /\ UNCHANGED result
    /\ UNCHANGED <<uc, url, registry, parser, normalizer, document, records,
                   items, calls, raised, detVars, callVars>>

\* Step 3: parser = self.router.select(document.content_type)
\*         if parser is None: return []
UniversalRoute ==
    /\ pc = "u_route"
    /\ calls' = Append(calls, Call("select", document.content_type))
    /\ parser' = ParserRouter_select(registry, document.content_type)
    /\ IF parser' = None
       THEN Return(<<>>)
       ELSE pc' = "u_parse" /\ UNCHANGED result
    /\ UNCHANGED <<uc, url, registry, normalizer, document, records, items,
                   raised, detVars, callVars>>

\* the same followed by the fixed-format gate: if not records: return []
UniversalParse_RecordsGate ==
    /\ pc = "u_parse"
    /\ calls' = Append(calls, Call("parse", document))
    /\ \E o \in ParseOutcomes(parser, document) :
         IF o.raises
         THEN /\ raised' = raised \cup {"parse"}
              /\ Return(<<>>)
              /\ UNCHANGED records
         ELSE /\ records' = o.value
              /\ IF ~TruthyList(o.value)
                 THEN Return(<<>>)
                 ELSE pc' = "u_normalize" /\ UNCHANGED result
              /\ UNCHANGED raised
    /\ UNCHANGED <<uc, url, registry, parser, normalizer, document, items,
                   detVars, callVars>>

\* Step 4: try: records = parser.parse(document) except Exception: return []
UniversalParse ==
    /\ pc = "u_parse"
    /\ calls' = Append(calls, Call("parse", document))
    /\ \E o \in ParseOutcomes(parser, document) :
         IF o.raises
         THEN /\ raised' = raised \cup {"parse"}
              /\ Return(<<>>)
              /\ UNCHANGED records
         ELSE /\ records' = o.value
              /\ pc' = "u_normalize"
              /\ UNCHANGED <<raised, result>>
    /\ UNCHANGED <<uc, url, registry, parser, normalizer, document, items,
                   detVars, callVars>>

\* the same followed by the fixed-format gate: if not items: return []
UniversalNormalize_ItemsGate ==
    /\ pc = "u_normalize"
    /\ calls' = Append(calls, Call("normalize", records))
    /\ \E o \in NormalizeOutcomes(normalizer, records, document.url) :
         IF o.raises
         THEN /\ raised' = raised \cup {"normalize"}
              /\ Return(<<>>)
              /\ UNCHANGED items
         ELSE /\ items' = o.value
              /\ IF ~TruthyList(o.value)
                 THEN Return(<<>>)
                 ELSE pc' = "u_emit" /\ UNCHANGED result
              /\ UNCHANGED raised
    /\ UNCHANGED <<uc, url, registry, parser, normalizer, document, records,
                   detVars, callVars>>

\* Step 5: try: items = self.normalizer.normalize(records)
\*         except Exception: return []
UniversalNormalize ==
    /\ pc = "u_normalize"
    /\ calls' = Append(calls, Call("normalize", records))
    /\ \E o \in NormalizeOutcomes(normalizer, records, document.url) :
         IF o.raises
         THEN /\ raised' = raised \cup {"normalize"}
              /\ Return(<<>>)
              /\ UNCHANGED items
         ELSE /\ items' = o.value
              /\ pc' = "u_emit"
              /\ UNCHANGED <<raised, result>>
    /\ UNCHANGED <<uc, url, registry, parser, normalizer, document, records,
                   detVars, callVars>>

\* the same with "return []" in the except branch of emit
UniversalEmit_FailureReturnsEmpty ==
    /\ pc = "u_emit"
    /\ calls' = Append(calls, Call("emit", items))
    /\ \E o \in EmitOutcomes :
         IF o.raises
         THEN raised' = raised \cup {"emit"} /\ Return(<<>>)
         ELSE raised' = raised /\ Return(items)
    /\ UNCHANGED <<uc, url, registry, parser, normalizer, document, records,
                   items, detVars, callVars>>

\* Step 6: try: self.output.emit(items) except Exception: log
\*         return items
UniversalEmit ==
    /\ pc = "u_emit"
    /\ calls' = Append(calls, Call("emit", items))
    /\ \E o \in EmitOutcomes :
         raised' = IF o.raises THEN raised \cup {"emit"} ELSE raised
    /\ Return(items)
    /\ UNCHANGED <<uc, url, registry, parser, normalizer, document, records,
                   items, detVars, callVars>>

(***************************************************************************)
(* The pipeline specification                                              *)
(***************************************************************************)
Normalizers == {MockNormalizer, GenericNormalizer}

DetIdle == hdr = None /\ rurl = <<>> /\ rbody = <<>> /\ detected = NotRun

\* outcome of a call that has not been made
NotCalled == [done |-> FALSE, raises |-> FALSE, value |-> <<>>]

CallIdle == inp = <<>> /\ out = NotCalled

OrchIdle ==
    /\ uc = "bcra"
    /\ url = <<>>
    /\ registry = <<>>
    /\ parser = None
    /\ normalizer = MockNormalizer
    /\ pc = "idle"
    /\ document = NoDocument
    /\ records = <<>>
    /\ items = <<>>
    /\ calls = <<>>
    /\ raised = {}
    /\ result = Running

Init == OrchIdle /\ DetIdle /\ CallIdle

Next ==
    \/ \E u \in ExecUrls,
          w \in ({MockParser} \X Normalizers)
                \cup { <<BcraParser, BcraNormalizer>> } :
          BcraExecute(u, w[1], w[2])
    \/ BcraValidateUrl
    \/ BcraFetch
    \/ BcraValidateContent
    \/ BcraParse
    \/ BcraValidateRecords
    \/ BcraNormalize
    \/ BcraValidateItems
    \/ BcraEmit
    \/ \E u \in ExecUrls, reg \in Registries, n \in Normalizers :
           UniversalExecute(u, reg, n)
    \/ UniversalFetch
    \/ UniversalValidateDocument
    \/ UniversalRoute
    \/ UniversalParse
    \/ UniversalNormalize
    \/ UniversalEmit

Spec == Init /\ [][Next]_vars

(***************************************************************************)
(* The detection specification: _detect_content_type applied to responses  *)
(***************************************************************************)
\* fetcher = AdapterScrapyDocumentFetcher(response); _detect_content_type()
Detect ==
    /\ detected = NotRun
    /\ detected' = _detect_content_type(hdr, rurl)
    /\ UNCHANGED <<hdr, rurl, rbody, orchVars, callVars>>

\* a second response with the same Content-Type header and the url u is
\* wrapped in a fetcher and classified
DetectOtherUrl(u) ==
    /\ detected # NotRun
    /\ rurl' = u
    /\ detected' = _detect_content_type(hdr, u)
    /\ UNCHANGED <<hdr, rbody, orchVars, callVars>>

\* bodies of a further response with the same header and url
Bodies == { <<>>, <<"%","P","D","F">> }

\* a response with the same header and url and the body b is wrapped in a
\* fetcher and classified
DetectOtherBody(b) ==
    /\ detected # NotRun
    /\ rbody' = b
    /\ detected' = _detect_content_type(hdr, rurl)
    /\ UNCHANGED <<hdr, rurl, orchVars, callVars>>

InitDetect ==
    /\ OrchIdle
    /\ CallIdle
    /\ hdr \in Headers
    /\ rurl \in Urls
    /\ rbody = <<>>
    /\ detected = NotRun

SpecDetect ==
    InitDetect
    /\ [][\/ Detect
          \/ \E u \in OtherUrls : DetectOtherUrl(u)
          \/ \E b \in Bodies : DetectOtherBody(b)]_vars

TypeOK ==
    /\ uc \in {"bcra", "universal"}
    /\ url \in ExecUrls
    /\ result.kind \in {"running", "returned", "raised"}
    /\ detected \in ContentType \cup {NotRun}

(***************************************************************************)
(* Vocabulary of the properties                                            *)
(***************************************************************************)
\* absent, empty or made of whitespace only
IsBlank(str) == str = None \/ \A i \in 1..Len(str) : str[i] \in Whitespace

\* neither text nor bytes carries a character
EmptyBody(doc) == doc.text \in {None, <<>>} /\ doc.bytes \in {None, <<>>}

\* the stage was called and came back without raising
Completed(stage) == Called(stage) /\ stage \notin raised

Fetched == document # NoDocument

(***************************************************************************)
(* Properties of the orchestrators (specification Spec)                    *)
(***************************************************************************)
\* C1: when the fetcher returns a Document whose content_type is UNKNOWN,
\* UniversalIngestUseCase.execute returns [] and calls neither
\* router.select nor any parse, normalize or emit
C1_UnknownSkipsPipeline ==
    (uc = "universal" /\ document.content_type = "UNKNOWN") =>
        /\ ~Called("select")
        /\ ~Called("parse")
        /\ ~Called("normalize")
        /\ ~Called("emit")
        /\ pc \in {"u_validate", "done"}
        /\ (pc = "done" => result = Returned(<<>>))

\* the run ended on an UNKNOWN document although the registry held a
\* parser for UNKNOWN
C1_Witness ==
    /\ uc = "universal"
    /\ pc = "done"
    /\ document.content_type = "UNKNOWN"
    /\ "UNKNOWN" \in DOMAIN registry
    /\ result = Returned(<<>>)

\* C2: in both orchestrators no exception of fetch, parse, normalize or
\* emit leaves execute; when fetch, parse or normalize raises, execute
\* returns [] and the raising call is the last collaborator call of the run
C2_NoExceptionEscapes ==
    /\ result # Propagated
    /\ \A stage \in {"fetch", "parse", "normalize"} :
         stage \in raised =>
            /\ pc = "done"
            /\ result = Returned(<<>>)
            /\ calls[Len(calls)].op = stage

\* a run whose normalizer raised
C2_Witness ==
    /\ pc = "done"
    /\ "normalize" \in raised
    /\ result = Returned(<<>>)

\* C3: every gate of BcraUseCase.execute short-circuits: blank url => no
\* fetch; blank document text => no parse; empty records => no normalize;
\* empty items => no emit; each returns []; emit never receives []
C3_BcraGates ==
    uc = "bcra" =>
        /\ IsBlank(url) =>
              ~Called("fetch") /\ (pc = "done" => result = Returned(<<>>))
        /\ (Fetched /\ IsBlank(document.text)) =>
              ~Called("parse") /\ (pc = "done" => result = Returned(<<>>))
        /\ (Completed("parse") /\ records = <<>>) =>
              ~Called("normalize") /\ (pc = "done" => result = Returned(<<>>))
        /\ (Completed("normalize") /\ items = <<>>) =>
              ~Called("emit") /\ (pc = "done" => result = Returned(<<>>))
        /\ \A arg \in ArgsOf("emit") : arg # <<>>

\* a fixed-format run that ended at the empty-items gate
C3_Witness ==
    /\ uc = "bcra"
    /\ pc = "done"
    /\ Completed("normalize")
    /\ items = <<>>
    /\ ~Called("emit")
    /\ result = Returned(<<>>)

\* C4 as stated: UniversalIngestUseCase.execute has the gates of the
\* fixed-format orchestrator: blank url => no fetch; empty body => no
\* parse; empty record list => no normalize
C4_UniversalSameGates ==
    uc = "universal" =>
        /\ IsBlank(url) => ~Called("fetch")
        /\ \A doc \in ArgsOf("parse") : ~EmptyBody(doc)
        /\ \A recs \in ArgsOf("normalize") : recs # <<>>

\* C4 amended: a finished UniversalIngestUseCase.execute has called fetch
\* with its url whatever the url; has called parse on every fetched
\* document whose type is not UNKNOWN and has a registered parser, empty
\* body or not; has called normalize on whatever list parse returned; and
\* has called emit on whatever list normalize returned
C4_UniversalGatesOnlyOnType ==
    (uc = "universal" /\ pc = "done") =>
        /\ calls # <<>> /\ calls[1] = Call("fetch", url)
        /\ ( /\ Fetched
             /\ document.content_type # "UNKNOWN"
             /\ document.content_type \in DOMAIN registry )
              => ArgsOf("parse") = {document}
        /\ Completed("parse") => ArgsOf("normalize") = {records}
        /\ Completed("normalize") => ArgsOf("emit") = {items}

\* a universal run on a blank url and an empty body whose parser returned
\* no record, and which still went through every stage
C4_Witness ==
    /\ uc = "universal"
    /\ pc = "done"
    /\ IsBlank(url)
    /\ EmptyBody(document)
    /\ Completed("parse")
    /\ records = <<>>
    /\ Ops = <<"fetch", "select", "parse", "normalize", "emit">>

\* C5: in both orchestrators a run whose fetch, parse and normalize all
\* completed and whose normalizer returned a non-empty list calls emit
\* exactly once, with that list, and returns that list; no run calls emit
\* more than once
C5_EmitOnceWithItems ==
    /\ CountOf("emit") <= 1
    /\ ( /\ pc = "done"
         /\ Completed("fetch")
         /\ Completed("parse")
         /\ Completed("normalize")
         /\ items # <<>> )
          => /\ CountOf("emit") = 1
             /\ ArgsOf("emit") = {items}
             /\ result = Returned(items)

\* a fixed-format run that emitted two different items, in order
C5_Witness ==
    /\ uc = "bcra"
    /\ pc = "done"
    /\ Len(items) = 2
    /\ items[1] # items[2]
    /\ "emit" \in raised
    /\ result = Returned(items)

\* C6: in both orchestrators, when emit raises, execute returns the list
\* the normalizer computed and raises nothing
C6_EmitFailureKeepsItems ==
    ("emit" \in raised /\ pc = "done") =>
        /\ Completed("normalize")
        /\ result = Returned(items)

\* a universal run whose emit raised on a non-empty list
C6_Witness ==
    /\ uc = "universal"
    /\ pc = "done"
    /\ "emit" \in raised
    /\ items # <<>>
    /\ result = Returned(items)

\* C7: for a fetched Document of type HTML, CSV, XLS, XLSX or PDF with an
\* empty body, the universal orchestrator over PARSER_REGISTRY and the
\* generic normalizer returns [] and calls emit exactly once, with [];
\* the fixed-format orchestrator returns [] and never calls emit
C7_EmptyBodyEndToEnd ==
    ( /\ pc = "done"
      /\ Fetched
      /\ document.content_type \in {"HTML", "CSV", "XLS", "XLSX", "PDF"}
      /\ EmptyBody(document) )
       => /\ ( /\ uc = "universal"
               /\ registry = PARSER_REGISTRY
               /\ normalizer = GenericNormalizer )
                => /\ result = Returned(<<>>)
                   /\ CountOf("emit") = 1
                   /\ ArgsOf("emit") = { <<>> }
          /\ uc = "bcra"
                => /\ result = Returned(<<>>)
                   /\ ~Called("emit")

\* the default universal pipeline ran on an empty CSV document
C7_Witness ==
    /\ uc = "universal"
    /\ pc = "done"
    /\ registry = PARSER_REGISTRY
    /\ normalizer = GenericNormalizer
    /\ document.content_type = "CSV"
    /\ document.text = <<>>
    /\ document.bytes = None
    /\ ArgsOf("emit") = { <<>> }

(***************************************************************************)
(* Properties of the detector (specification SpecDetect)                   *)
(***************************************************************************)
\* the header text the tokens are looked up in
HeaderText == Lower(Decode(HeaderGet(hdr)))

TokenTypes ==
    { << <<"h","t","m","l">>, "HTML" >>,
      << <<"c","s","v">>, "CSV" >>,
      << <<"e","x","c","e","l">>, "XLSX" >>,
      << <<"s","p","r","e","a","d","s","h","e","e","t">>, "XLSX" >>,
      << <<"x","l","s">>, "XLS" >>,
      << <<"x","l","s","x">>, "XLSX" >>,
      << <<"p","d","f">>, "PDF" >> }

\* the content types of the known tokens the header contains
TypesInHeader == { tt[2] : tt \in { t \in TokenTypes : Contains(t[1], HeaderText) } }

SuffixTypes ==
    { << <<".","c","s","v">>, "CSV" >>,
      << <<".","x","l","s">>, "XLS" >>,
      << <<".","x","l","s","x">>, "XLSX" >>,
      << <<".","p","d","f">>, "PDF" >> }

\* the content types of the known suffixes the url ends in
TypesInUrl == { st[2] : st \in { t \in SuffixTypes : EndsWith(rurl, t[1]) } }

\* C8 as stated: a Content-Type header that contains "csv" in any letter
\* case is classified CSV, for every url
C8_CsvHeaderIsCsv ==
    (detected # NotRun /\ Contains(<<"c","s","v">>, Lower(HeaderGet(hdr))))
        => detected = "CSV"

\* C8 amended: a Content-Type header whose text contains "csv" in any
\* letter case and does not contain "html" is classified CSV, for every url
C8_CsvHeaderWithoutHtmlIsCsv ==
    ( /\ detected # NotRun
      /\ Contains(<<"c","s","v">>, HeaderText)
      /\ ~Contains(<<"h","t","m","l">>, HeaderText) )
        => detected = "CSV"

\* a mixed-case csv header won over a .pdf url
C8_Witness ==
    /\ detected = "CSV"
    /\ Contains(<<"C","s","V">>, HeaderGet(hdr))
    /\ EndsWith(rurl, <<".","p","d","f">>)

\* C9: precedence header > url suffix > default: a header that contains a
\* known token decides alone (the result is the type of a token it
\* contains and is the same for every url of a response with that header);
\* otherwise a known url suffix decides; otherwise the result is HTML
C9_Precedence ==
    /\ [](detected # NotRun =>
            IF TypesInHeader # {} THEN detected \in TypesInHeader
            ELSE IF TypesInUrl # {} THEN detected \in TypesInUrl
            ELSE detected = "HTML")
    /\ [][(detected # NotRun /\ hdr' = hdr /\ TypesInHeader # {})
            => detected' = detected]_vars

\* a pdf header decided although the url ends in .csv
C9_Witness ==
    /\ detected = "PDF"
    /\ TypesInHeader = {"PDF"}
    /\ TypesInUrl = {"CSV"}

\* C10: every known header token maps to its own type: a header with
\* "xlsx" and none of html, csv, excel, spreadsheet is XLSX; one with
\* "xls" but not "xlsx" (and none of the former) is XLS
C10_TokenOwnType ==
    ( /\ detected # NotRun
      /\ TypesInHeader \cap {"HTML", "CSV"} = {}
      /\ ~Contains(<<"e","x","c","e","l">>, HeaderText)
      /\ ~Contains(<<"s","p","r","e","a","d","s","h","e","e","t">>, HeaderText) )
        => /\ Contains(<<"x","l","s","x">>, HeaderText) => detected = "XLSX"
           /\ ( /\ Contains(<<"x","l","s">>, HeaderText)
                /\ ~Contains(<<"x","l","s","x">>, HeaderText) )
                 => detected = "XLS"

\* the part of a url before its query string and fragment
UrlPath(u) ==
    LET stops == { i \in 1..Len(u) : u[i] \in {"?", "#"} } IN
    IF stops = {} THEN u
    ELSE SubSeq(u, 1, (CHOOSE i \in stops : \A j \in stops : i <= j) - 1)

\* C11: when the header contains no known token, a url whose path ends in
\* .csv, .xls, .xlsx or .pdf is classified CSV, XLS, XLSX or PDF, also
\* when a query string or fragment follows the path
C11_UrlPathSuffix ==
    (detected # NotRun /\ TypesInHeader = {}) =>
        \A st \in SuffixTypes :
            EndsWith(UrlPath(rurl), st[1]) => detected = st[2]

\* C12: detection is total and pure: the result is always one of HTML,
\* CSV, XLS, XLSX, PDF (never UNKNOWN, never an exception, also without a
\* header), and a response with the same header and url gets the same
\* result whatever its body
C12_TotalAndPure ==
    /\ [](detected # NotRun
            => detected \in {"HTML", "CSV", "XLS", "XLSX", "PDF"})
    /\ [][(detected # NotRun /\ hdr' = hdr /\ rurl' = rurl)
            => detected' = detected]_vars

\* a response without header, whose body starts like a PDF, was classified
C12_Witness ==
    /\ hdr = None
    /\ rbody = <<"%","P","D","F">>
    /\ detected = "HTML"

(***************************************************************************)
(* The router specification: ParserRouter.select applied to registries     *)
(***************************************************************************)
AllParsers == {_BS4_PARSER, _CSV_PARSER, _EXCEL_PARSER, _PDF_PARSER, MockParser}

\* router = ParserRouter(reg); router.select(ct)
RouterSelect ==
    /\ ~out.done
    /\ out' = Done(ParserRouter_select(inp.registry, inp.content_type))
    /\ UNCHANGED <<inp, orchVars, detVars>>

\* the registries a ParserRouter is built with: the default one, the test
\* doubles and every registry with a single entry
InitRouter ==
    /\ OrchIdle
    /\ DetIdle
    /\ inp \in [registry : Registries \cup
                              { [c \in {ct} |-> p] :
                                   ct \in ContentType, p \in AllParsers },
                  content_type : ContentType]
    /\ out = NotCalled

SpecRouter == InitRouter /\ [][RouterSelect]_vars

\* C13: select(ct) returns the parser registered for ct, or None when none
\* is registered, and never raises; with PARSER_REGISTRY the five known
\* types resolve to a parser, XLS and XLSX to the same one, UNKNOWN to None
C13_SelectRegisteredOrNone ==
    out.done =>
        /\ ~out.raises
        /\ inp.content_type \in DOMAIN inp.registry
              => out.value = inp.registry[inp.content_type]
        /\ inp.content_type \notin DOMAIN inp.registry => out.value = None
        /\ inp.registry = PARSER_REGISTRY =>
              /\ inp.content_type \in {"HTML", "CSV", "XLS", "XLSX", "PDF"}
                    => out.value \in AllParsers \ {MockParser}
              /\ inp.content_type \in {"XLS", "XLSX"}
                    => out.value = _EXCEL_PARSER
              /\ inp.content_type = "UNKNOWN" => out.value = None

\* UNKNOWN was looked up in the default registry
C13_Witness ==
    /\ out.done
    /\ inp.registry = PARSER_REGISTRY
    /\ inp.content_type = "UNKNOWN"
    /\ out.value = None

(***************************************************************************)
(* The parser specification: one parse call of one format parser           *)
(***************************************************************************)
\* rows of two, three and four cells, and a row without cells; a first
\* cell without link, with an empty, a blank and a padded link text
RowPool ==
    { << Cell(l, t1), Cell(None, t2), Cell(None, t3) >> :
         l \in { None, <<>>, <<" ">>, <<" ", "L">> },
         t1 \in { <<" ">>, <<"t", " ">> },
         t2 \in { <<" ">>, <<"t", " ">> },
         t3 \in { <<" ">>, <<"t", " ">> } }
    \cup { <<>>,
           << Cell(<<"L">>, <<"L">>), Cell(None, <<"t">>) >>,
           << Cell(<<"L">>, <<"L">>), Cell(None, <<"t">>),
              Cell(None, <<"v">>), Cell(None, <<"w">>) >> }

NoSoup == [raises |-> FALSE, rows |-> <<>>]

ParseUrl == <<"u">>

\* parser, constructor flag, document and library behaviour of one call
\* for the bcra parser "<html>" stands for the markup soup was built from;
\* the csv texts are made of letters, line ends and blanks, and one has six
\* lines, one more than the parser reads
ParseInputs ==
    [parser : {BcraParser}, has_header : {TRUE},
     document : [url : {ParseUrl}, content_type : {"HTML"}, bytes : {None},
                 text : { None, <<>>, <<" ">>, <<"<html>">> },
                 status_code : {200}],
     soup : { [raises |-> TRUE, rows |-> <<>>] } \cup
            { [raises |-> FALSE, rows |-> r] :
                 r \in ListsUpTo(RowPool, MaxRows) }]
    \cup
    [parser : {_CSV_PARSER}, has_header : BOOLEAN,
     document : [url : {ParseUrl}, content_type : {"CSV"}, bytes : {None},
                 text : Concats({ <<"a">>, <<"\n">>, <<" ">> }, MaxCsvPieces)
                        \cup { None, <<>>,
                               <<"a", "\n", "b", "\n", "c", "\n", "d", "\n",
                                 "e", "\n", "f">> },
                 status_code : {200}],
     soup : {NoSoup}]
    \cup
    [parser : {_BS4_PARSER, _EXCEL_PARSER, _PDF_PARSER}, has_header : {TRUE},
     document : Documents(ParseUrl), soup : {NoSoup}]

ParseBcra ==
    /\ ~out.done
    /\ inp.parser = BcraParser
    /\ out' = AdapterBcraParser_parse(inp.document, inp.soup)
    /\ UNCHANGED <<inp, orchVars, detVars>>

ParseCsv ==
    /\ ~out.done
    /\ inp.parser = _CSV_PARSER
    /\ out' = Done(AdapterCsvParser_parse(inp.document))
    /\ UNCHANGED <<inp, orchVars, detVars>>

ParseBs4 ==
    /\ ~out.done
    /\ inp.parser = _BS4_PARSER
    /\ out' = Done(AdapterBs4Parser_parse(inp.document))
    /\ UNCHANGED <<inp, orchVars, detVars>>

ParseExcel ==
    /\ ~out.done
    /\ inp.parser = _EXCEL_PARSER
    /\ out' = Done(AdapterExcelParser_parse(inp.document))
    /\ UNCHANGED <<inp, orchVars, detVars>>

ParsePdf ==
    /\ ~out.done
    /\ inp.parser = _PDF_PARSER
    /\ out' = Done(AdapterPdfParser_parse(inp.document))
    /\ UNCHANGED <<inp, orchVars, detVars>>

InitParse ==
    /\ OrchIdle
    /\ DetIdle
    /\ inp \in ParseInputs
    /\ out = NotCalled

SpecParse ==
    InitParse
    /\ [][ParseBcra \/ ParseCsv \/ ParseBs4 \/ ParseExcel \/ ParsePdf]_vars

\* the row has three cells, a link in the first, and three non-blank texts
AcceptedRow(row) ==
    /\ Len(row) >= 3
    /\ row[1].link # None
    /\ ~IsBlank(row[1].link)
    /\ ~IsBlank(row[2].text)
    /\ ~IsBlank(row[3].text)

\* the tr elements the bcra parser went through
RowsRead ==
    IF out.done /\ inp.parser = BcraParser /\ ~inp.soup.raises
       /\ ~IsBlank(inp.document.text)
    THEN inp.soup.rows ELSE <<>>

AcceptedRows == { i \in 1..Len(RowsRead) : AcceptedRow(RowsRead[i]) }

\* C14: the bcra parser yields one Record per accepted row and none for any
\* other row: the k-th Record comes from the k-th accepted row, its data has
\* exactly the keys detalle, fecha, valor with the trimmed link text of cell
\* 0 and the trimmed texts of cells 1 and 2, its source_url is the document's
C14_RecordIffAcceptedRow ==
    (out.done /\ inp.parser = BcraParser) =>
        /\ ~out.raises
        /\ Len(out.value) = Cardinality(AcceptedRows)
        /\ \A i \in AcceptedRows :
              LET k == Cardinality({ j \in AcceptedRows : j <= i })
                  rec == out.value[k]
                  row == RowsRead[i]
              IN /\ DOMAIN rec.data = {"detalle", "fecha", "valor"}
                 /\ rec.data["detalle"] = Strip(row[1].link)
                 /\ rec.data["fecha"] = Strip(row[2].text)
                 /\ rec.data["valor"] = Strip(row[3].text)
                 /\ rec.source_url = inp.document.url

\* a rejected row without a link followed by an accepted row
C14_Witness ==
    /\ out.done
    /\ inp.parser = BcraParser
    /\ Len(RowsRead) = 2
    /\ Len(RowsRead[1]) = 3
    /\ RowsRead[1][1].link = None
    /\ AcceptedRows = {2}
    /\ Len(out.value) = 1

\* the call met a failure inside the parser: BeautifulSoup raised
InternalFailure ==
    /\ inp.parser = BcraParser
    /\ ~IsBlank(inp.document.text)
    /\ inp.soup.raises

CsvLines ==
    IF inp.document.text = None THEN <<>>
    ELSE Split(inp.document.text, "\n")

\* the data lines: the non-blank lines, the first line left out under
\* has_header
CsvDataLines ==
    LET body == IF inp.has_header /\ CsvLines # <<>>
                THEN Tail(CsvLines) ELSE CsvLines
    IN SelectSeq(body, LAMBDA l : ~IsBlank(l))

\* C16: the csv parser returns one Record per data line, in line order,
\* whatever the number of lines; the first line is no data line when
\* has_header is true
C16_OneRecordPerDataLine ==
    (out.done /\ inp.parser = _CSV_PARSER) =>
        /\ Len(out.value) = Len(CsvDataLines)
        /\ \A i \in 1..Len(out.value) :
              i <= Len(CsvDataLines)
                 => out.value[i].data["raw_line"] = CsvDataLines[i]

(***************************************************************************)
(* The normalizer specification: one normalize call of one normalizer      *)
(***************************************************************************)
\* records whose data holds any of the keys the generic normalizer probes
\* for a title, absent, empty or filled; records of the bcra parser; records
\* whose values are None or an object
NormalizeRecordPool ==
    LET KeyValue(k) == CASE k = "title" -> <<"T">>
                         [] k = "name" -> <<"N">>
                         [] k = "detalle" -> <<"D">>
        TitleData ==
            UNION { { [k \in ks |-> IF k \in filled THEN KeyValue(k)
                                                   ELSE <<>>] :
                        filled \in SUBSET ks } :
                      ks \in SUBSET {"title", "name", "detalle"} }
        OtherData ==
    { [title |-> None, name |-> <<"N">>],
      [title |-> Object],
      [raw_line |-> <<"a">>],
      [detalle |-> <<"D">>,
       fecha |-> <<"2", "9", "/", "1", "0", "/", "2", "0", "2", "5">>,
       valor |-> <<"1", ".", "4", "9", "6", ",", "0", "2">>],
      [title |-> <<"T">>,
       fecha |-> <<" ", "1", "/", "2", "/", "2", "0", "2", "5", " ">>,
       valor |-> <<" ", "4", "0", ".", "7", "6", "4", " ">>],
      [detalle |-> <<"D">>, fecha |-> Object, valor |-> <<"1">>],
      [detalle |-> <<"D">>, fecha |-> <<"x">>, valor |-> Object],
      [detalle |-> Object, fecha |-> <<>>, valor |-> <<>>] }
    IN { MkRecord(d, ParseUrl) : d \in TitleData \cup OtherData }

NormalizeGeneric ==
    /\ ~out.done
    /\ inp.normalizer = GenericNormalizer
    /\ out' = Done(AdapterGenericNormalizer_normalize(inp.records))
    /\ UNCHANGED <<inp, orchVars, detVars>>

NormalizeBcra ==
    /\ ~out.done
    /\ inp.normalizer = BcraNormalizer
    /\ out' = AdapterBcraNormalizer_normalize(inp.records, inp.pads_year)
    /\ UNCHANGED <<inp, orchVars, detVars>>

\* normalizer, record list and C library behaviour of one call
InitNormalize ==
    /\ OrchIdle
    /\ DetIdle
    /\ inp \in [normalizer : {GenericNormalizer}, pads_year : {TRUE},
                 records : ListsUpTo(NormalizeRecordPool, MaxRecords)]
                \cup
                [normalizer : {BcraNormalizer}, pads_year : BOOLEAN,
                 records : ListsUpTo(NormalizeRecordPool, MaxRecords)]
    /\ out = NotCalled

SpecNormalize == InitNormalize /\ [][NormalizeGeneric \/ NormalizeBcra]_vars

\* the record makes its normalizer's loop body raise: json.dumps meets an
\* object, or _parse_fecha or _parse_valor call strip on one
RecordFails(n, rec) ==
    IF n = GenericNormalizer
    THEN \E k \in DOMAIN rec.data : rec.data[k] = Object
    ELSE \E k \in {"fecha", "valor"} \cap DOMAIN rec.data :
            rec.data[k] = Object

\* the records of the input list that do not fail, in input order
Survivors ==
    SelectSeq(inp.records, LAMBDA rec : ~RecordFails(inp.normalizer, rec))

\* the value under the first of title, name, detalle that holds a non-empty
\* value, else the empty string
FirstNonEmpty(d) ==
    LET cands == <<"title", "name", "detalle">>
        filled == { i \in 1..3 : /\ cands[i] \in DOMAIN d
                                 /\ d[cands[i]] # None
                                 /\ d[cands[i]] # <<>> }
    IN IF filled = {} THEN <<>>
       ELSE d[cands[CHOOSE i \in filled : \A j \in filled : i <= j]]

\* text is a serialization of the whole of d: an object in braces that holds
\* a "key": value member for each key of d and no other key
SerializationOf(text, d) ==
    /\ Len(text) >= 2
    /\ text[1] = "{"
    /\ text[Len(text)] = "}"
    /\ \A k \in DOMAIN d :
          Contains(<<"\"", k, "\"", ":", " ">>
                   \o (IF d[k] = None THEN <<"null">>
                       ELSE <<"\"">> \o d[k] \o <<"\"">>), text)
    /\ Cardinality({ i \in 1..Len(text) : text[i] = ":" })
          = Cardinality(DOMAIN d)

ItemFrom(n, item, rec) ==
    /\ item.url = rec.source_url
    /\ IF n = GenericNormalizer
       THEN SerializationOf(item.content, rec.data)
       ELSE /\ item.title =
                  (IF "detalle" \in DOMAIN rec.data THEN rec.data["detalle"]
                   ELSE IF "title" \in DOMAIN rec.data THEN rec.data["title"]
                   ELSE <<>>)
            /\ DOMAIN item.content = {"fecha", "valor"}

\* C19: in both normalizers a Record whose processing fails is skipped and
\* nothing else: normalize does not raise, the output has one Item per Record
\* that did not fail, in input order, so it is never longer than the input
C19_FailedRecordSkipped ==
    out.done =>
        /\ ~out.raises
        /\ Len(out.value) = Len(Survivors)
        /\ Len(out.value) <= Len(inp.records)
        /\ \A i \in 1..Len(out.value) :
              i <= Len(Survivors)
                 => ItemFrom(inp.normalizer, out.value[i], Survivors[i])

\* the bcra normalizer skipped a first record whose fecha is an object and
\* kept the second
C19_Witness ==
    /\ out.done
    /\ inp.normalizer = BcraNormalizer
    /\ Len(inp.records) = 2
    /\ RecordFails(BcraNormalizer, inp.records[1])
    /\ ~RecordFails(BcraNormalizer, inp.records[2])
    /\ ~out.raises
    /\ Len(out.value) = 1
    /\ out.value[1].content =
          [fecha |-> <<"2", "0", "2", "5", "-", "1", "0", "-", "2", "9">>,
           valor |-> [neg |-> FALSE, n |-> 149602, e |-> 2]]

(***************************************************************************)
(* The date specification: one _parse_fecha call                           *)
(***************************************************************************)
\* texts of three tokens joined by "/", bare or padded with whitespace;
\* texts that are no date, and values that are no text
FechaInputs ==
    LET DayTokens ==
    { <<"1">>, <<"0", "1">>, <<"2", "8">>, <<"2", "9">>, <<"3", "0">>,
      <<"3", "1">>, <<"3", "2">>, <<"0">>, <<"0", "0">> }

        MonthTokens ==
    { <<"1">>, <<"2">>, <<"0", "2">>, <<"0", "4">>, <<"1", "0">>,
      <<"1", "2">>, <<"1", "3">> }

        YearTokens ==
    { <<"2", "0", "2", "5">>, <<"2", "0", "2", "4">>, <<"1", "9", "0", "0">>,
      <<"2", "0", "0", "0">>, <<"0", "9", "9", "9">>, <<"0", "0", "0", "1">>,
      <<"0", "0", "0", "0">>, <<"2", "5">>, <<"2", "0", "2", "5", "0">> }

        SlashTexts ==
    { pre \o dd \o <<"/">> \o mm \o <<"/">> \o yy \o pre :
         pre \in { <<>>, <<" ">> },
         dd \in DayTokens, mm \in MonthTokens, yy \in YearTokens }

        OtherFechas ==
    { <<>>, <<" ">>, <<" ", "\t">>, None, Object,
      <<"n", "o", "t", "-", "a", "-", "d", "a", "t", "e">>,
      <<"2", "9", "-", "1", "0", "-", "2", "0", "2", "5">>,
      <<"2", "9", "/", "1", "0">>,
      <<"2", "9", "/", "1", "0", "/", "2", "0", "2", "5", "/">> }

    IN [fecha_str : SlashTexts \cup OtherFechas, pads_year : BOOLEAN]

ParseFecha ==
    /\ ~out.done
    /\ LET r == _parse_fecha(inp.fecha_str, inp.pads_year)
       IN out' = [done |-> TRUE, raises |-> r.raises, value |-> r.value]
    /\ UNCHANGED <<inp, orchVars, detVars>>

InitFecha ==
    /\ OrchIdle
    /\ DetIdle
    /\ inp \in FechaInputs
    /\ out = NotCalled

SpecFecha == InitFecha /\ [][ParseFecha]_vars

\* s is a date written DD/MM/YYYY: two digits, two digits and four digits
\* between "/" that name a day of the calendar
ValidDDMMYYYY(s) ==
    /\ Len(s) = 10
    /\ s[3] = "/"
    /\ s[6] = "/"
    /\ \A i \in {1, 2, 4, 5, 7, 8, 9, 10} : IsDigit(s[i])
    /\ LET dd == ToInt(SubSeq(s, 1, 2))
           mm == ToInt(SubSeq(s, 4, 5))
           yyyy == ToInt(SubSeq(s, 7, 10))
       IN /\ yyyy >= 1
          /\ mm \in 1..12
          /\ dd >= 1
          /\ dd <= (IF mm = 2
                    THEN (IF yyyy % 4 = 0 /\ (yyyy % 100 # 0 \/ yyyy % 400 = 0)
                          THEN 29 ELSE 28)
                    ELSE IF mm \in {4, 6, 9, 11} THEN 30 ELSE 31)

\* C20: _parse_fecha turns every valid DD/MM/YYYY text into the same date
\* written YYYY-MM-DD, and the empty text into the empty text
C20_ValidDateToIso ==
    (out.done /\ inp.fecha_str # None /\ inp.fecha_str # Object) =>
        /\ inp.fecha_str = <<>> => (~out.raises /\ out.value = <<>>)
        /\ ValidDDMMYYYY(inp.fecha_str) =>
              /\ ~out.raises
              /\ out.value = SubSeq(inp.fecha_str, 7, 10) \o <<"-">>
                             \o SubSeq(inp.fecha_str, 4, 5) \o <<"-">>
                             \o SubSeq(inp.fecha_str, 1, 2)

\* the argument of the call is a str
FechaIsText == inp.fecha_str # None /\ inp.fecha_str # Object

DayMonthYear(s) ==
    LET parts == Split(Strip(s), "/") IN
    /\ Len(parts) = 3
    /\ Len(parts[1]) \in {1, 2}
    /\ Len(parts[2]) \in {1, 2}
    /\ ValidDDMMYYYY(ZeroPad(parts[1], 2) \o <<"/">> \o ZeroPad(parts[2], 2)
                     \o <<"/">> \o parts[3])

MaxValorPieces == 3

\* texts made of digits, separators, whitespace, a sign, an exponent mark,
\* an underscore and a letter; the texts of the docstring; special floats;
\* values that are no text
InitValor ==
    /\ OrchIdle
    /\ DetIdle
    /\ out = NotCalled
    /\ inp \in [valor_str :
          Concats({ <<"1">>, <<"2", "0">>, <<".">>, <<",">>, <<" ">>,
                    <<"\t">>, <<"-">>, <<"e">>, <<"_">>, <<"a">> },
                  MaxValorPieces)
          \cup { <<"1", ".", "4", "9", "6", ",", "0", "2">>,
                 <<"4", "0", ".", "7", "6", "4">>,
                 <<"1", "\t", "4", "9", "6", ",", "0", "2">>,
                 <<"a", "b", "c">>, <<"1", ",", "2", ",", "3">>,
                 <<"i", "n", "f">>, <<"-", "n", "a", "n">>,
                 None, Object }]

ParseValor ==
    /\ ~out.done
    /\ LET r == _parse_valor(inp.valor_str)
       IN out' = [done |-> TRUE, raises |-> r.raises, value |-> r.value]
    /\ UNCHANGED <<inp, orchVars, detVars>>

SpecValor == InitValor /\ [][ParseValor]_vars

\* the argument of the call is a str
ValorIsText == inp.valor_str # None /\ inp.valor_str # Object

\* the text cleaned as the algorithm says: every whitespace character
\* removed; with a comma, every dot removed and the comma made a decimal
\* point; without, every dot removed
AlgorithmCleaned(s) ==
    LET bare == SelectSeq(s, LAMBDA c : c \notin Whitespace)
        nodots == SelectSeq(bare, LAMBDA c : c # ".")
    IN [i \in 1..Len(nodots) |-> IF nodots[i] = "," THEN "." ELSE nodots[i]]

\* C22: _parse_valor returns the number that the algorithm gives: strip all
\* whitespace anywhere, with a comma remove the dots and make the comma the
\* decimal point, else remove the dots, parse the result
C22_ValorAlgorithm ==
    (out.done /\ ValorIsText /\ FloatOk(AlgorithmCleaned(inp.valor_str))) =>
        /\ ~out.raises
        /\ out.value = ToFloat(AlgorithmCleaned(inp.valor_str))

\* C23: _parse_valor raises on no text and returns 0.0 for every text that,
\* once cleaned, is not a number: empty, whitespace-only, alphabetic, with
\* more than one comma
C23_UnparseableIsZero ==
    (out.done /\ ValorIsText) =>
        /\ ~out.raises
        /\ ~FloatOk(AlgorithmCleaned(inp.valor_str)) => out.value = Zero

\* "abc" went through float, which rejected it, and the call returned 0.0
C23_Witness ==
    /\ out.done
    /\ inp.valor_str = <<"a", "b", "c">>
    /\ ~out.raises
    /\ out.value = Zero

\* the data of the record holds a title (detalle or title), a fecha and a
\* valor
HasThreeFields(record) ==
    /\ {"detalle", "title"} \cap DOMAIN record.data # {}
    /\ {"fecha", "valor"} \subseteq DOMAIN record.data

\* C24: AdapterBcraNormalizer.normalize gives no Item for a Record whose
\* data is missing the title/detalle, the fecha or the valor: the list it
\* returns is the one the records holding all three fields give
C24_MissingFieldSkipped ==
    (out.done /\ inp.normalizer = BcraNormalizer) =>
        /\ ~out.raises
        /\ out.value =
               AdapterBcraNormalizer_normalize(
                   SelectSeq(inp.records, HasThreeFields),
                   inp.pads_year).value

\* the two Items of the rates table, for the document url u
TableItems(u) ==
    << MkItem(<<"T", "a", "s", "a">>,
              [fecha |-> <<"2", "0", "2", "5", "-", "1", "0", "-", "2", "9">>,
               valor |-> [neg |-> FALSE, n |-> 149602, e |-> 2]], u),
       MkItem(<<"O", "t", "r", "a">>,
              [fecha |-> <<"2", "0", "2", "4", "-", "0", "1", "-", "0", "1">>,
               valor |-> [neg |-> FALSE, n |-> 40764, e |-> 0]], u) >>

\* a BcraUseCase built with AdapterBcraParser and AdapterBcraNormalizer has
\* fetched the two-row page and has finished
TableRunDone ==
    /\ uc = "bcra"
    /\ parser = BcraParser
    /\ normalizer = BcraNormalizer
    /\ pc = "done"
    /\ Fetched
    /\ document = TableDocument(document.url)

\* C25: on the Document with the rows ("Tasa", "29/10/2025", "1.496,02") and
\* ("Otra", "01/01/2024", "40.764"), BcraUseCase with AdapterBcraParser and
\* AdapterBcraNormalizer returns exactly the two Items, in row order, with
\* the titles, the contents {fecha: "2025-10-29", valor: 1496.02} and
\* {fecha: "2024-01-01", valor: 40764.0} and the url of the document, and
\* emit is called once, with those two Items
C25_TwoRowsEndToEnd ==
    TableRunDone =>
        /\ result = Returned(TableItems(document.url))
        /\ CountOf("emit") = 1
        /\ ArgsOf("emit") = { TableItems(document.url) }

\* such a run ended, its emit call having raised or not
C25_Witness ==
    /\ TableRunDone
    /\ Called("emit")
    /\ Len(result.value) = 2

(***************************************************************************)
(* The sharing specification: UniversalIngestUseCase instances that share  *)
(* one ParserRouter and one Normalizer, their execute calls interleaved    *)
(***************************************************************************)
MaxRuns == 2

\* the local variables of one execute call, at its first statement
NewRun ==
    [pc |-> "u_fetch", document |-> NoDocument, parser |-> None,
     records |-> <<>>, items |-> <<>>, calls |-> <<>>, result |-> Running]

\* Step 1 of run r, on the fetcher of its own use case
RunFetch(r) ==
    /\ out[r].pc = "u_fetch"
    /\ LET called == Append(out[r].calls, Call("fetch", inp.url[r]))
       IN IF inp.fetch[r].raises
          THEN out' = [out EXCEPT ![r].calls = called,
                                  ![r].result = Returned(<<>>),
                                  ![r].pc = "done"]
          ELSE out' = [out EXCEPT ![r].calls = called,
                                  ![r].document = inp.fetch[r].value,
                                  ![r].pc = "u_validate"]
    /\ UNCHANGED <<inp, orchVars, detVars>>

\* Step 2 of run r
RunValidateDocument(r) ==
    /\ out[r].pc = "u_validate"
    /\ IF out[r].document.content_type = "UNKNOWN"
       THEN out' = [out EXCEPT ![r].result = Returned(<<>>), ![r].pc = "done"]
       ELSE out' = [out EXCEPT ![r].pc = "u_route"]
    /\ UNCHANGED <<inp, orchVars, detVars>>

\* the same with a selection that found a parser kept in a field of the
\* shared router, which every run reads its parser from
RunRoute_SharedParser(r) ==
    /\ out[r].pc = "u_route"
    /\ LET ct == out[r].document.content_type
           selected == ParserRouter_select(registry, ct)
           called == Append(out[r].calls, Call("select", ct))
       IN out' = [q \in DOMAIN out |->
                     IF q # r
                     THEN IF selected = None THEN out[q]
                          ELSE [out[q] EXCEPT !.parser = selected]
                     ELSE IF selected = None
                     THEN [out[r] EXCEPT !.calls = called,
                                         !.parser = selected,
                                         !.result = Returned(<<>>),
                                         !.pc = "done"]
                     ELSE [out[r] EXCEPT !.calls = called,
                                         !.parser = selected,
                                         !.pc = "u_parse"]]
    /\ UNCHANGED <<inp, orchVars, detVars>>

\* Step 3 of run r, on the shared router: select reads the registry
RunRoute(r) ==
    /\ out[r].pc = "u_route"
    /\ LET ct == out[r].document.content_type
           selected == ParserRouter_select(registry, ct)
           called == Append(out[r].calls, Call("select", ct))
       IN IF selected = None
          THEN out' = [out EXCEPT ![r].calls = called,
                                  ![r].parser = selected,
                                  ![r].result = Returned(<<>>),
                                  ![r].pc = "done"]
          ELSE out' = [out EXCEPT ![r].calls = called,
                                  ![r].parser = selected,
                                  ![r].pc = "u_parse"]
    /\ UNCHANGED <<inp, orchVars, detVars>>

\* Step 4 of run r, on the parser the router gave it
RunParse(r) ==
    /\ out[r].pc = "u_parse"
    /\ LET called == Append(out[r].calls, Call("parse", out[r].document))
       IN \E o \in ParseOutcomes(out[r].parser, out[r].document) :
            IF o.raises
            THEN out' = [out EXCEPT ![r].calls = called,
                                    ![r].result = Returned(<<>>),
                                    ![r].pc = "done"]
            ELSE out' = [out EXCEPT ![r].calls = called,
                                    ![r].records = o.value,
                                    ![r].pc = "u_normalize"]
    /\ UNCHANGED <<inp, orchVars, detVars>>

\* Step 5 of run r, on the shared normalizer
RunNormalize(r) ==
    /\ out[r].pc = "u_normalize"
    /\ LET called == Append(out[r].calls, Call("normalize", out[r].records))
       IN \E o \in NormalizeOutcomes(normalizer, out[r].records,
                                     out[r].document.url) :
            IF o.raises
            THEN out' = [out EXCEPT ![r].calls = called,
                                    ![r].result = Returned(<<>>),
                                    ![r].pc = "done"]
            ELSE out' = [out EXCEPT ![r].calls = called,
                                    ![r].items = o.value,
                                    ![r].pc = "u_emit"]
    /\ UNCHANGED <<inp, orchVars, detVars>>

\* Step 6 of run r, on the output of its own use case, which returns or
\* raises
RunEmit(r) ==
    /\ out[r].pc = "u_emit"
    /\ out' = [out EXCEPT
                  ![r].calls = Append(out[r].calls, Call("emit", out[r].items)),
                  ![r].result = Returned(out[r].items),
                  ![r].pc = "done"]
    /\ UNCHANGED <<inp, orchVars, detVars>>

\* one registry and one normalizer, shared; per run the url and what the
\* fetcher of its use case does: it raises, or it returns a page, a table of
\* two lines, a document of unknown type or a PDF; every execute call at its
\* first statement
InitRuns ==
    /\ uc = "universal"
    /\ url = <<>>
    /\ registry \in { PARSER_REGISTRY, [ct \in {"CSV"} |-> _CSV_PARSER] }
    /\ parser = None
    /\ normalizer \in {GenericNormalizer, BcraNormalizer}
    /\ pc = "idle"
    /\ document = NoDocument
    /\ records = <<>>
    /\ items = <<>>
    /\ calls = <<>>
    /\ raised = {}
    /\ result = Running
    /\ DetIdle
    /\ inp \in [registry : {registry}, normalizer : {normalizer},
                url : [1..MaxRuns -> {<<"a">>}],
                fetch : [1..MaxRuns ->
                    { Raises,
                      Returns([url |-> <<"a">>, content_type |-> "HTML",
                               bytes |-> None, text |-> <<"a">>,
                               status_code |-> 200]),
                      Returns([url |-> <<"a">>, content_type |-> "CSV",
                               bytes |-> None, text |-> <<"a", "\n", "b">>,
                               status_code |-> 200]),
                      Returns([url |-> <<"a">>, content_type |-> "UNKNOWN",
                               bytes |-> None, text |-> <<"a">>,
                               status_code |-> 200]),
                      Returns([url |-> <<"a">>, content_type |-> "PDF",
                               bytes |-> <<"b">>, text |-> None,
                               status_code |-> 200]) }]]
    /\ out = [r \in 1..MaxRuns |-> NewRun]

SpecRuns ==
    InitRuns
    /\ [][\E r \in 1..MaxRuns :
            \/ RunFetch(r)
            \/ RunValidateDocument(r)
            \/ RunRoute(r)
            \/ RunParse(r)
            \/ RunNormalize(r)
            \/ RunEmit(r)]_vars

\* execute(u) of a use case built on router registry reg and normalizer n,
\* run alone with a fetcher that does fetch: the results it can return,
\* each with the collaborator calls made
RunAlone(reg, n, u, fetch) ==
    LET Outcome(v, c) == [result |-> Returned(v), calls |-> c]
        c1 == << Call("fetch", u) >>
    IN IF fetch.raises THEN { Outcome(<<>>, c1) }
       ELSE IF fetch.value.content_type = "UNKNOWN"
       THEN { Outcome(<<>>, c1) }
       ELSE
       LET doc == fetch.value
           c2 == Append(c1, Call("select", doc.content_type))
           selected == ParserRouter_select(reg, doc.content_type)
           c3 == Append(c2, Call("parse", doc))
           Normalized(recs) ==
               LET c4 == Append(c3, Call("normalize", recs))
               IN { IF i.raises THEN Outcome(<<>>, c4)
                    ELSE Outcome(i.value, Append(c4, Call("emit", i.value))) :
                       i \in NormalizeOutcomes(n, recs, doc.url) }
       IN IF selected = None THEN { Outcome(<<>>, c2) }
          ELSE UNION { IF p.raises THEN { Outcome(<<>>, c3) }
                       ELSE Normalized(p.value) :
                          p \in ParseOutcomes(selected, doc) }

\* s is the beginning of t
IsPrefix(s, t) == Len(s) <= Len(t) /\ SubSeq(t, 1, Len(s)) = s

\* C26: with execute calls of distinct use cases interleaved on one shared
\* router registry and one shared normalizer, the registry and the
\* normalizer stay as built, every run makes the collaborator calls it makes
\* when run alone, and returns the item list it returns when run alone
C26_SharedCollaborators ==
    /\ registry = inp.registry
    /\ normalizer = inp.normalizer
    /\ \A r \in DOMAIN out :
          \E alone \in RunAlone(inp.registry, inp.normalizer, inp.url[r],
                                inp.fetch[r]) :
             /\ IsPrefix(out[r].calls, alone.calls)
             /\ out[r].pc = "done" =>
                   /\ out[r].calls = alone.calls
                   /\ out[r].result = alone.result

\* both runs are under way: the first got the csv parser and holds its
\* records, the second got the bs4 parser
C26_Witness ==
    /\ out[1].pc = "u_normalize"
    /\ out[1].parser = _CSV_PARSER
    /\ out[1].records # <<>>
    /\ out[2].pc = "u_parse"
    /\ out[2].parser = _BS4_PARSER

(***************************************************************************)
(* The fetch specification: AdapterScrapyDocumentFetcher.fetch on responses *)
(***************************************************************************)
\* response.text: a TextResponse decodes its body, a mark taking the place
\* of what is no text; a Response that is no TextResponse raises
\* AttributeError
ResponseText(body, textual) ==
    IF textual
    THEN Returns([i \in 1..Len(body) |->
                     IF body[i] = BadByte THEN "\\ufffd" ELSE body[i]])
    ELSE Raises

\* the same filling bytes for the text formats as well
AdapterScrapyDocumentFetcher_fetch_BothFields(h, u, body, textual) ==
    LET content_type == _detect_content_type(h, u)
        text == ResponseText(body, textual)
    IN IF content_type \in {"PDF", "XLS", "XLSX"}
       THEN Done([url |-> u, content_type |-> content_type, bytes |-> body,
                  text |-> None, status_code |-> 200])
       ELSE IF text.raises THEN Failed
       ELSE Done([url |-> u, content_type |-> content_type, bytes |-> body,
                  text |-> text.value, status_code |-> 200])

\* AdapterScrapyDocumentFetcher.fetch on the response with Content-Type h,
\* url u and the body: the Document, or the exception of response.text
AdapterScrapyDocumentFetcher_fetch(h, u, body, textual) ==
    LET content_type == _detect_content_type(h, u)
        text == ResponseText(body, textual)
    IN IF content_type \in {"PDF", "XLS", "XLSX"}
       THEN Done([url |-> u, content_type |-> content_type, bytes |-> body,
                  text |-> None, status_code |-> 200])
       ELSE IF text.raises THEN Failed
       ELSE Done([url |-> u, content_type |-> content_type, bytes |-> None,
                  text |-> text.value, status_code |-> 200])

Fetch ==
    /\ ~out.done
    /\ out' = AdapterScrapyDocumentFetcher_fetch(hdr, rurl, rbody,
                                                 inp.textual)
    /\ UNCHANGED <<inp, hdr, rurl, rbody, detected, orchVars>>

\* a response of status 200: its Content-Type, url and body, and whether
\* Scrapy built it as a TextResponse
InitFetch ==
    /\ OrchIdle
    /\ hdr \in Headers
    /\ rurl \in OtherUrls
    /\ rbody \in { <<>>, <<"b">>, <<"b", BadByte>> }
    /\ detected = NotRun
    /\ inp \in [textual : BOOLEAN]
    /\ out = NotCalled

SpecFetch == InitFetch /\ [][Fetch]_vars

\* C27: a Document that fetch produced has exactly one of text and bytes:
\* bytes and no text for PDF, XLS and XLSX, text and no bytes for HTML and
\* CSV
C27_OneOfTextAndBytes ==
    (out.done /\ ~out.raises) =>
        /\ (out.value.text = None) # (out.value.bytes = None)
        /\ out.value.content_type \in {"PDF", "XLS", "XLSX"} =>
              out.value.bytes = rbody /\ out.value.text = None
        /\ out.value.content_type \in {"HTML", "CSV"} =>
              out.value.text # None /\ out.value.bytes = None

\* a csv response with an empty body gave a Document whose text is the
\* empty string and whose bytes are absent
C27_Witness ==
    /\ out.done
    /\ ~out.raises
    /\ out.value.content_type = "CSV"
    /\ rbody = <<>>
    /\ out.value.text = <<>>
    /\ out.value.bytes = None

\* place of a collaborator call in the pipeline
StageRank(op) ==
    CASE op = "fetch" -> 1
      [] op = "select" -> 2
      [] op = "parse" -> 3
      [] op = "normalize" -> 4
      [] op = "emit" -> 5

\* C29: within one execute call of either orchestrator the collaborator
\* calls come in the order fetch, select (universal only), parse,
\* normalize, emit, each at most once, and a call is made only when every
\* earlier stage of that orchestrator was called and returned without
\* raising
C29_StagesInOrder ==
    /\ \A i, j \in 1..Len(calls) :
          i < j => StageRank(calls[i].op) < StageRank(calls[j].op)
    /\ Called("select") => uc = "universal"
    /\ \A i \in 1..Len(calls) :
          \A stage \in {"fetch", "parse", "normalize", "emit"}
                       \cup (IF uc = "universal" THEN {"select"} ELSE {}) :
             StageRank(stage) < StageRank(calls[i].op) => Completed(stage)

\* a universal run made all five calls and ended
C29_Witness ==
    /\ uc = "universal"
    /\ pc = "done"
    /\ Ops = <<"fetch", "select", "parse", "normalize", "emit">>

(***************************************************************************)
(* The output specification: emit calls of output adapters on one file     *)
(* system                                                                  *)
(***************************************************************************)
\* bcra_spider.py: JSON_OUTPUT_FILE; json.py: the default of output_file
JSON_OUTPUT_FILE == <<"bcra_data.json">>
DefaultOutputFile == <<"output.json">>

\* a lone surrogate: a character of a str that utf-8 cannot encode
Surrogate == "\\ud800"

\* a file that holds the documents docs: one document when a write went
\* through, none when it was cut short
FileOf(docs) == [exists |-> TRUE, content |-> docs]

\* lines 62-80 of emit: output_data, which json.dumps writes as text; the
\* text is taken as the document it denotes
JsonDocument(its) ==
    [total_items |-> Len(its),
     items |-> [i \in 1..Len(its) |->
                   [title |-> its[i].title, content |-> its[i].content,
                    url |-> its[i].url]]]

\* the text of the document holds a character utf-8 cannot encode
Unencodable(doc) ==
    \E i \in 1..Len(doc.items) :
       \E j \in 1..Len(doc.items[i].title) :
          doc.items[i].title[j] = Surrogate

\* the same opening the file with mode "a"
_save_to_file_Appends(files, path, doc, disk) ==
    IF disk = "open fails" THEN Returns(files)
    ELSE IF Unencodable(doc)
    THEN [raises |-> TRUE,
          value |-> [files EXCEPT ![path] = FileOf(files[path].content)]]
    ELSE IF disk = "write fails"
    THEN Returns([files EXCEPT ![path] = FileOf(files[path].content)])
    ELSE Returns([files EXCEPT
                     ![path] = FileOf(Append(files[path].content, doc))])

\* AdapterJsonOutput._save_to_file on the file system files: mkdir or open
\* raises OSError, or open truncates the file and write raises
\* UnicodeEncodeError, which is no OSError, or OSError, or goes through
_save_to_file(files, path, doc, disk) ==
    IF disk = "open fails" THEN Returns(files)
    ELSE IF Unencodable(doc)
    THEN [raises |-> TRUE, value |-> [files EXCEPT ![path] = FileOf(<<>>)]]
    ELSE IF disk = "write fails"
    THEN Returns([files EXCEPT ![path] = FileOf(<<>>)])
    ELSE Returns([files EXCEPT ![path] = FileOf(<<doc>>)])

\* AdapterJsonOutput(output_file=output_file).emit(its)
AdapterJsonOutput_emit(files, output_file, its, disk) ==
    LET _output_path == IF Truthy(output_file) THEN output_file
                        ELSE DefaultOutputFile
    IN IF ~TruthyList(its) THEN Returns(files)
       ELSE _save_to_file(files, _output_path, JsonDocument(its), disk)

\* AdapterStdoutOutput().emit(its): it logs
AdapterStdoutOutput_emit(files, its) == Returns(files)

\* a caller builds AdapterJsonOutput(output_file=output_file) and calls
\* emit(its); calls keeps, per path, the list of the latest non-empty emit
\* and whether a write on it has failed
EmitJson(output_file, its, disk) ==
    LET path == IF Truthy(output_file) THEN output_file
                ELSE DefaultOutputFile
        o == AdapterJsonOutput_emit(out.value, output_file, its, disk)
    IN /\ inp' = [adapter |-> "json", output_file |-> output_file,
                  items |-> its, disk |-> disk, before |-> out.value]
       /\ out' = [done |-> TRUE, raises |-> o.raises, value |-> o.value]
       /\ calls' = IF ~TruthyList(its) THEN calls
                   ELSE [calls EXCEPT
                            ![path] = [last |-> its,
                                       failed |-> \/ calls[path].failed
                                                  \/ o.raises
                                                  \/ disk # "ok"]]
       /\ UNCHANGED <<uc, url, registry, parser, normalizer, pc, document,
                      records, items, raised, result, detVars>>

\* a caller builds AdapterStdoutOutput() and calls emit(its)
EmitStdout(its) ==
    LET o == AdapterStdoutOutput_emit(out.value, its)
    IN /\ inp' = [adapter |-> "stdout", output_file |-> None,
                  items |-> its, disk |-> "ok", before |-> out.value]
       /\ out' = [done |-> TRUE, raises |-> o.raises, value |-> o.value]
       /\ UNCHANGED <<uc, url, registry, parser, normalizer, pc, document,
                      records, items, calls, raised, result, detVars>>

\* item lists: the empty list, lists of items json can write, and lists
\* with an item whose title cannot be encoded
EmitLists ==
    LET a == MkItem(<<"T">>, <<"c">>, <<"u">>)
        b == MkItem(<<>>, <<"d">>, None)
    IN { <<>>, <<a>>, <<b>>, <<a, b>>,
         << MkItem(<<Surrogate>>, <<"c">>, <<"u">>) >>,
         << a, MkItem(<<"a", Surrogate>>, <<"c">>, <<"u">>) >> }

\* no file yet at either path; no emit call made
InitOutput ==
    /\ uc = "bcra"
    /\ url = <<>>
    /\ registry = <<>>
    /\ parser = None
    /\ normalizer = MockNormalizer
    /\ pc = "idle"
    /\ document = NoDocument
    /\ records = <<>>
    /\ items = <<>>
    /\ raised = {}
    /\ result = Running
    /\ DetIdle
    /\ calls = [p \in {JSON_OUTPUT_FILE, DefaultOutputFile} |->
                   [last |-> <<>>, failed |-> FALSE]]
    /\ inp = <<>>
    /\ out = [done |-> FALSE, raises |-> FALSE,
              value |-> [p \in {JSON_OUTPUT_FILE, DefaultOutputFile} |->
                            [exists |-> FALSE, content |-> <<>>]]]

SpecOutput ==
    InitOutput
    /\ [][\/ \E f \in {None, <<>>, JSON_OUTPUT_FILE}, its \in EmitLists,
                disk \in {"ok", "open fails", "write fails"} :
                EmitJson(f, its, disk)
          \/ \E its \in EmitLists : EmitStdout(its)]_vars

\* C28: emit([]) of either adapter returns without raising and leaves the
\* files as they were; emit of a non-empty list on the json adapter does
\* not raise, whatever happens to the write, and a document it wrote has
\* total_items equal to the length of its items array
C28_EmptyNoOpWriteFailureSilent ==
    out.done =>
        /\ ~out.raises
        /\ ~TruthyList(inp.items) => out.value = inp.before
        /\ \A p \in DOMAIN out.value :
              \A i \in 1..Len(out.value[p].content) :
                 out.value[p].content[i].total_items
                     = Len(out.value[p].content[i].items)

\* C30: on a path where no write has failed, the file holds exactly the
\* document of the latest emit of a non-empty list: its items, in its
\* order, and its count, and nothing of an earlier emit
C30_NoAccumulation ==
    \A p \in DOMAIN calls :
       (calls[p].last # <<>> /\ ~calls[p].failed) =>
          /\ out.value[p].exists
          /\ Len(out.value[p].content) = 1
          /\ out.value[p].content[1].total_items = Len(calls[p].last)
          /\ out.value[p].content[1].items =
                [i \in 1..Len(calls[p].last) |->
                    [title |-> calls[p].last[i].title,
                     content |-> calls[p].last[i].content,
                     url |-> calls[p].last[i].url]]

\* an emit of one item went through on the path that held the document of
\* an emit of two items
C30_Witness ==
    /\ out.done
    /\ inp.adapter = "json"
    /\ inp.output_file = JSON_OUTPUT_FILE
    /\ Len(inp.items) = 1
    /\ ~calls[JSON_OUTPUT_FILE].failed
    /\ Len(inp.before[JSON_OUTPUT_FILE].content) = 1
    /\ inp.before[JSON_OUTPUT_FILE].content[1].total_items = 2
    /\ out.value[JSON_OUTPUT_FILE].content[1].total_items = 1

====
